---- MODULE Spec2Model ----
(***************************************************************************)
(* A model of tsundoku's tweet importer (data/importer.py) and of its      *)
(* experiment preparation pipeline (features/prepare_experiment.py).       *)
(*                                                                         *)
(* Strings are sequences of one-character strings, so that substring and   *)
(* case-insensitive matching are computed and not assumed.  An optional    *)
(* value (Python's None, pandas' NaN) is the empty tuple None and a        *)
(* present value v is the one-element tuple Some(v).                       *)
(***************************************************************************)
EXTENDS Integers, Sequences, FiniteSets, TLC

None == <<>>
Some(v) == <<v>>
IsNone(o) == o = <<>>
Val(o) == o[1]

Range(s) == {s[i] : i \in 1..Len(s)}

RECURSIVE SumSeq(_)
SumSeq(s) == IF s = <<>> THEN 0 ELSE Head(s) + SumSeq(Tail(s))

(***************************************************************************)
(* Bounds of the model.                                                    *)
(***************************************************************************)
MaxRows == 2
MaxLruSize == 2
MaxFiles == 2

(***************************************************************************)
(* String matching.                                                        *)
(***************************************************************************)
\* str.lower() on the model's alphabet
LowerChar(c) ==
  CASE c = "N" -> "n"
    [] c = "Y" -> "y"
    [] c = "C" -> "c"
    [] c = "P" -> "p"
    [] OTHER -> c

Lower(s) == [i \in 1..Len(s) |-> LowerChar(s[i])]

\* p occurs in s as a contiguous run (the empty string occurs in every string)
IsSubstring(p, s) ==
  \E i \in 0..(Len(s) - Len(p)) : SubSeq(s, i + 1, i + Len(p)) = p

\* re.compile("|".join(patterns), re.IGNORECASE).search(s): the patterns are
\* literal alternatives; the join of an empty list is the empty regex, which
\* is found in every string.
RegexSearch(patterns, s) ==
  IF patterns = <<>>
    THEN TRUE
    ELSE \E i \in 1..Len(patterns) : IsSubstring(Lower(patterns[i]), Lower(s))

\* df["user.location"].str.contains(regex) == True: NaN for an absent
\* location, and NaN == True is False
StrContains(regex, loc) ==
  IF IsNone(loc) THEN FALSE ELSE RegexSearch(regex, Val(loc))

VARIABLES
  location,     \* self.location: accept_unknown, patterns, blacklist
  terms,        \* self.terms: patterns, blacklist
  automaton,    \* self.automaton: word -> "search-term" | "rejected-term"
  df,           \* the frame handed to the last filter_dataframe call
  candidates,   \* its rows after the location stage
  filtered,     \* the rows it returned
  filterPc,     \* "idle" | "returned" | "raised"
  ngram_range,  \* user_matrix.ngram_range, None when not configured
  stopwords,    \* the stopword set of configure_tokenizer
  lru_config,   \* user_matrix.lru_size, None when not configured
  lru_size,     \* the capacity token_cache was made with
  token_cache,  \* the LRU of lru_tokenize: <<key, value>> entries, the most
                \* recently used first
  tokIn,        \* the input of the last lru_tokenize call, None before it
  tokOut,       \* what the last call returned
  tokInvoked,   \* whether the last call ran tokenize
  tokPrevIn,    \* the input of the call before the last
  tokPrevOut,   \* what the call before the last returned
  tokEvicted,   \* the keys that left token_cache during the last call
  file_names,   \* import_files: the files of the batch, in task order
  target_path,  \* import_files: the target directory, None before a call
  file_prefix,  \* import_files: the file prefix, None when not given
  taskState,    \* per task: "pending" | "done" | "raised"
  taskResult,   \* per task: what _read_file returned
  targetFiles,  \* the files written under target_path: <<name, rows>>
  read_tweets,  \* the sum import_files logs
  importPc,     \* "idle" | "running" | "done" | "raised"
  timezone,     \* self.timezone: the UTC offset of local time, in seconds
  sourceFiles,  \* the timestamps whose file exists under source_path
  dateCall,     \* the arguments of the last import_date call, None before it
  resolved,     \* the timestamps its loop went through, in order
  sourceExists, \* whether the source_path directory exists on disk
  sourceArg,    \* the type of the source_path argument of the last call
  dateRaised,   \* the exception the last import_date call raised, or None
  inputs,       \* prepare_experiment: the interim partitions now on disk
  discussion_only, \* experiments.toml: discussion_only of the experiment
  overwrite,    \* the --overwrite option of the current (or last) run
  prepPc,       \* the step of main the run is at (0 before any run)
  running,      \* whether a run of main is in progress
  disk,         \* processed_path: artifact name -> content, None if absent
  elem_to_id,   \* main's elem_to_id, loaded from user.elem_ids.json.gz
  written,      \* the artifacts the current (or last) run wrote
  skipped,      \* the stages and phases the current (or last) run skipped
  completed,    \* the stages that ran to completion and whose artifacts
                \* were not deleted since
  deletes,      \* how many artifacts were deleted between runs
  interrupted,  \* the stages and phases whose last execution ended after
                \* some of their writes and before their last one
  config,       \* the project table of config.toml
  pool,         \* the size of the worker pool of dask, once configured
  rawRootExists,        \* whether data/raw/json exists
  experimentsFileExists,\* whether experiments.toml exists
  processedExists,      \* whether processed_path exists
  cliError,     \* the exception the last call of main raised before its stages
  xgb,          \* PartiallyLabeledXGB.xgb: None until fitted, then its classes
  calibrated_clf, \* PartiallyLabeledXGB.calibrated_clf, None until calibrated
  clfOut,       \* the last call on the classifier module and its outcome
  yData,        \* the label vector y of the dataset the calls are made over
  cvArgs,       \* stratify_on, n_splits and eval_fraction of cross_validate
  calls         \* per concurrent _read_file task: its lru_tokenize call

filterVars == <<df, candidates, filtered, filterPc>>
configVars == <<location, terms, automaton>>
tokConfigVars == <<ngram_range, stopwords, lru_config, lru_size>>
tokCallVars == <<tokIn, tokOut, tokInvoked, tokPrevIn, tokPrevOut,
                 tokEvicted>>
tokVars == <<token_cache, tokCallVars>>
importVars == <<file_names, target_path, file_prefix, taskState, taskResult,
                targetFiles, read_tweets, importPc>>
dateVars == <<timezone, sourceFiles, dateCall, resolved, sourceExists,
              sourceArg, dateRaised>>
importerVars == <<configVars, filterVars, tokConfigVars, tokVars, importVars,
                  dateVars>>
cliVars == <<config, pool, rawRootExists, experimentsFileExists,
             processedExists, cliError>>
clfVars == <<xgb, calibrated_clf, clfOut, yData, cvArgs>>
otherVars == <<clfVars, calls>>
prepVars == <<inputs, discussion_only, overwrite, prepPc, running, disk,
              elem_to_id, written, skipped, completed, deletes, interrupted,
              cliVars>>

(***************************************************************************)
(* configure_locations / configure_terms                                   *)
(***************************************************************************)
NY == <<"N", "Y">>
NYC == <<"N", "Y", "C">>
Paris == <<"P">>

\* the lists read from the gazetteer and blacklist files (possibly no line)
GazetteerLists == {<< <<"n", "y">> >>}
LocationBlacklists == {<<>>, << <<"c">> >>}

\* the lists read from term_files and blacklist_files (possibly no line)
TermLists == {<<>>, << <<"a">> >>}
TermBlacklists == {<<>>, << <<"b">> >>, << <<"a">> >>}

Opt(S) == {None} \cup {Some(x) : x \in S}

\* configure_locations: accept_unknown defaults to true; each regex is None
\* unless its key is configured
configure_locations ==
  location \in [accept_unknown : BOOLEAN,
                patterns : Opt(GazetteerLists),
                blacklist : Opt(LocationBlacklists)]

\* add_word(term, value) replaces the value of a word that is already there:
\* the rejected terms are added after the search terms
BuildAutomaton(t) ==
  LET search == IF IsNone(t.patterns) THEN {} ELSE Range(Val(t.patterns))
      rejected == IF IsNone(t.blacklist) THEN {} ELSE Range(Val(t.blacklist))
  IN [w \in search \cup rejected |->
        IF w \in rejected THEN "rejected-term" ELSE "search-term"]

configure_terms ==
  /\ terms \in [patterns : Opt(TermLists), blacklist : Opt(TermBlacklists)]
  /\ automaton = BuildAutomaton(terms)

(***************************************************************************)
(* filter_dataframe                                                        *)
(***************************************************************************)
Locations == Opt({NY, NYC, Paris})
Texts == {<<"a">>, <<"b">>, <<"a", "b">>}
Description == <<"b", "a">>
Name == <<"a">>

Tweet(id, loc, text) ==
  [id |-> id, loc |-> loc, text |-> text,
   description |-> Description, name |-> Name]

\* the rows a frame is drawn from: every location and text with an id, and a
\* row without one
Records ==
  {Tweet(Some(1), l, t) : l \in Locations, t \in Texts}
    \cup {Tweet(None, Some(NY), <<"a">>)}

\* a frame: its rows, and whether it has a text column
Frames(S) == [hasText : {TRUE}, rows : UNION {[1..n -> S] : n \in 0..MaxRows}]

\* LocationFlag with the blacklist mask assigned instead of and-ed to the flag
LocationFlagBlacklistAssigned(r) ==
  LET f0 == ~IsNone(r.id)
      f1 == IF ~location.accept_unknown /\ ~IsNone(location.patterns)
              THEN f0 /\ StrContains(Val(location.patterns), r.loc)
              ELSE f0
  IN IF ~IsNone(location.blacklist)
       THEN ~StrContains(Val(location.blacklist), r.loc)
       ELSE f1

\* lines 46-57: the row mask of the location stage
LocationFlag(r) ==
  LET f0 == ~IsNone(r.id)
      f1 == IF ~location.accept_unknown
              THEN IF ~IsNone(location.patterns)
                     THEN f0 /\ StrContains(Val(location.patterns), r.loc)
                     ELSE f0
              ELSE f0
      f2 == IF ~IsNone(location.blacklist)
              THEN f1 /\ ~StrContains(Val(location.blacklist), r.loc)
              ELSE f1
  IN f2

\* set(pluck(1, self.automaton.iter(text))): the labels of the words found
Findings(text) ==
  {automaton[w] : w \in {x \in DOMAIN automaton : IsSubstring(x, text)}}

\* lines 69-75: the row mask of the keyword stage
KeywordFlag(r) ==
  IF ~IsNone(terms.patterns)
    THEN "search-term" \in Findings(r.text)
         /\ ~("rejected-term" \in Findings(r.text))
    ELSE ~("rejected-term" \in Findings(r.text))

\* LocationStage with the gazetteer applied whatever accept_unknown says
LocationStageIgnoringAcceptUnknown(frame) ==
  SelectSeq(frame.rows,
            LAMBDA r : /\ LocationFlag(r)
                       /\ (~IsNone(location.patterns)
                             => StrContains(Val(location.patterns), r.loc)))

\* lines 46-59: candidates = df[flag]
LocationStage(frame) == SelectSeq(frame.rows, LocationFlag)

\* line 66 reads the text attribute of every candidate row: a frame without
\* a text column raises AttributeError at the first candidate
KeywordStageRaises(frame) ==
  /\ Cardinality(DOMAIN automaton) > 0
  /\ LocationStage(frame) # <<>>
  /\ ~frame.hasText

KeywordStage(cands) ==
  IF Cardinality(DOMAIN automaton) > 0
    THEN SelectSeq(cands, KeywordFlag)
    ELSE cands

filter_dataframe(frame) ==
  [raised |-> KeywordStageRaises(frame),
   candidates |-> LocationStage(frame),
   rows |-> IF KeywordStageRaises(frame)
              THEN <<>>
              ELSE KeywordStage(LocationStage(frame))]

\* one call of filter_dataframe on a frame of tweets (the function reads the
\* configuration only, so one call from the configured state shows them all)
FilterCall ==
  /\ filterPc = "idle"
  /\ \E frame \in Frames(Records) :
       LET res == filter_dataframe(frame)
       IN /\ df' = frame
          /\ candidates' = res.candidates
          /\ filtered' = res.rows
          /\ filterPc' = IF res.raised THEN "raised" ELSE "returned"
  /\ UNCHANGED <<otherVars, prepVars, configVars, tokConfigVars, tokVars, importVars, dateVars>>

FilterIdle ==
  /\ df = [hasText |-> TRUE, rows |-> <<>>]
  /\ candidates = <<>>
  /\ filtered = <<>>
  /\ filterPc = "idle"

(***************************************************************************)
(* configure_tokenizer and lru_tokenize                                    *)
(***************************************************************************)
\* tsundoku.features.text.tokenize: the words of the text (here its
\* characters), lower-cased, without the stopwords, followed by their bigrams
\* when ngram_range reaches 2
Tokenize(x, ngrams, stop) ==
  LET words == SelectSeq(Lower(x), LAMBDA w : w \notin stop)
      unigrams == [i \in 1..Len(words) |-> <<words[i]>>]
      bigrams == IF Len(words) < 2
                   THEN <<>>
                   ELSE [i \in 1..(Len(words) - 1) |-> <<words[i], words[i + 1]>>]
  IN IF ~IsNone(ngrams) /\ Val(ngrams)[2] >= 2
       THEN unigrams \o bigrams
       ELSE unigrams

\* line 198: dtm_config.get("lru_size", 50)
DefaultLruSize == 50
LruSize(configured) ==
  IF IsNone(configured) THEN DefaultLruSize ELSE Val(configured)

\* lines 183-198: the tokenizer's configuration and its empty cache
configure_tokenizer ==
  /\ ngram_range \in {None, Some(<<1, 2>>)}
  /\ stopwords \in {{}, {"a"}}
  /\ lru_config \in {None} \cup {Some(n) : n \in 1..MaxLruSize}
  /\ lru_size = LruSize(lru_config)
  /\ token_cache = <<>>

DefaultTokenizer ==
  /\ ngram_range = None
  /\ stopwords = {}
  /\ lru_config = Some(MaxLruSize)
  /\ lru_size = LruSize(lru_config)
  /\ token_cache = <<>>

CacheKeys(cache) == {cache[i][1] : i \in 1..Len(cache)}

\* x in token_cache: the order of the entries is left alone
CacheContains(cache, x) == x \in CacheKeys(cache)

CacheIndex(cache, x) == CHOOSE i \in 1..Len(cache) : cache[i][1] = x

\* token_cache[x]: the value of x
CacheValue(cache, x) == cache[CacheIndex(cache, x)][2]

\* a read that leaves the order of the entries alone
CacheTouchKeepsOrder(cache, x) == cache
\* token_cache[x] moves the entry read to the front
CacheTouch(cache, x) ==
  LET i == CacheIndex(cache, x)
  IN <<cache[i]>> \o SubSeq(cache, 1, i - 1) \o SubSeq(cache, i + 1, Len(cache))

\* CachePut evicting at the front: a full cache loses the entry just written
CachePutEvictsNewest(cache, x, v, size) ==
  LET rest == SelectSeq(cache, LAMBDA e : e[1] # x)
      put == <<<<x, v>>>> \o rest
  IN IF Len(put) > size THEN Tail(put) ELSE put

\* token_cache[x] = v: the entry goes to the front, and the least recently
\* used entry leaves a cache that is over its capacity
CachePut(cache, x, v, size) ==
  LET rest == SelectSeq(cache, LAMBDA e : e[1] # x)
      put == <<<<x, v>>>> \o rest
  IN IF Len(put) > size THEN SubSeq(put, 1, size) ELSE put

\* lines 200-208: the cached value on a hit, else tokenize and remember
lru_tokenize(cache, x) ==
  IF CacheContains(cache, x)
    THEN [result |-> CacheValue(cache, x),
          cache |-> CacheTouch(cache, x),
          invoked |-> FALSE]
    ELSE LET result == Tokenize(x, ngram_range, stopwords)
         IN [result |-> result,
             cache |-> CachePut(cache, x, result, lru_size),
             invoked |-> TRUE]

\* the strings the importer tokenizes: text, user.description, user.name
TokenInputs == Texts \cup {Description, Name}

\* one call of self.tokenize by the caller
TokenizeCall ==
  \E x \in TokenInputs :
    LET res == lru_tokenize(token_cache, x)
    IN /\ token_cache' = res.cache
       /\ tokIn' = Some(x)
       /\ tokOut' = res.result
       /\ tokInvoked' = res.invoked
       /\ tokPrevIn' = tokIn
       /\ tokPrevOut' = tokOut
       /\ tokEvicted' = CacheKeys(token_cache) \ CacheKeys(res.cache)
       /\ UNCHANGED <<otherVars, prepVars, configVars, filterVars, tokConfigVars, importVars,
                      dateVars>>

TokIdle ==
  /\ tokIn = None
  /\ tokOut = <<>>
  /\ tokInvoked = FALSE
  /\ tokPrevIn = None
  /\ tokPrevOut = <<>>
  /\ tokEvicted = {}

NoFilters ==
  /\ location = [accept_unknown |-> TRUE, patterns |-> None, blacklist |-> None]
  /\ terms = [patterns |-> None, blacklist |-> None]
  /\ automaton = BuildAutomaton(terms)

(***************************************************************************)
(* lru_tokenize under the worker pool: the _read_file tasks of a batch run *)
(* on threads that share token_cache.  A thread can be switched out        *)
(* between the membership test, the read and the insert of lines 201-206;  *)
(* each of the three is one operation of the LRU.                          *)
(***************************************************************************)
MaxTasks == 2
Tasks == 1..MaxTasks

NoCall == [pc |-> "idle", x |-> <<>>, result |-> <<>>]

\* lines 269-271: a task calls self.tokenize on a string of its file
CallTokenize ==
  /\ \E t \in Tasks, x \in TokenInputs :
       /\ calls[t].pc \in {"idle", "returned"}
       /\ calls' = [calls EXCEPT ![t] = [pc |-> "test", x |-> x,
                                         result |-> <<>>]]
  /\ UNCHANGED <<clfVars, prepVars, importerVars>>

\* line 201: if x in token_cache
TestMembership ==
  /\ \E t \in Tasks :
       /\ calls[t].pc = "test"
       /\ calls' = [calls EXCEPT ![t].pc =
                      IF CacheContains(token_cache, calls[t].x)
                        THEN "read" ELSE "tokenize"]
  /\ UNCHANGED <<clfVars, prepVars, importerVars>>

\* line 202: return token_cache[x], a KeyError when x is no longer a key
ReadCached ==
  /\ \E t \in Tasks :
       /\ calls[t].pc = "read"
       /\ IF CacheContains(token_cache, calls[t].x)
            THEN /\ calls' = [calls EXCEPT
                                ![t].pc = "returned",
                                ![t].result =
                                  CacheValue(token_cache, calls[t].x)]
                 /\ token_cache' = CacheTouch(token_cache, calls[t].x)
            ELSE /\ calls' = [calls EXCEPT ![t].pc = "KeyError"]
                 /\ UNCHANGED token_cache
  /\ UNCHANGED <<clfVars, prepVars, configVars, filterVars, tokConfigVars,
                 tokCallVars, importVars, dateVars>>

\* lines 204-208: tokenize, token_cache[x] = result, return result
TokenizeAndInsert ==
  /\ \E t \in Tasks :
       /\ calls[t].pc = "tokenize"
       /\ LET result == Tokenize(calls[t].x, ngram_range, stopwords)
          IN /\ calls' = [calls EXCEPT ![t].pc = "returned",
                                       ![t].result = result]
             /\ token_cache' =
                  CachePut(token_cache, calls[t].x, result, lru_size)
  /\ UNCHANGED <<clfVars, prepVars, configVars, filterVars, tokConfigVars,
                 tokCallVars, importVars, dateVars>>

\* the tasks of a batch before their first call, over an empty cache
InitConcurrent ==
  /\ ngram_range = None
  /\ stopwords = {}
  /\ lru_config \in {Some(n) : n \in 1..MaxLruSize}
  /\ lru_size = LruSize(lru_config)
  /\ token_cache = <<>>
  /\ calls = [t \in Tasks |-> NoCall]

(***************************************************************************)
(* read_tweet_dataframe, _read_file and import_files                       *)
(***************************************************************************)
\* A raw file: one whose decompression fails, or one that parses to a frame.
FileCorrupted ==
  [name |-> "corrupted", corrupted |-> TRUE,
   frame |-> [hasText |-> FALSE, rows |-> <<>>]]
FileEmpty ==
  [name |-> "empty", corrupted |-> FALSE,
   frame |-> [hasText |-> FALSE, rows |-> <<>>]]
\* tweets without a text column
FileNoText ==
  [name |-> "notext", corrupted |-> FALSE,
   frame |-> [hasText |-> FALSE,
              rows |-> <<Tweet(Some(1), Some(NY), <<>>)>>]]
FileValidA ==
  [name |-> "validA", corrupted |-> FALSE,
   frame |-> [hasText |-> TRUE,
              rows |-> <<Tweet(Some(1), Some(NY), <<"a">>),
                         Tweet(Some(1), Some(Paris), <<"a", "b">>)>>]]
FileValidB ==
  [name |-> "validB", corrupted |-> FALSE,
   frame |-> [hasText |-> TRUE,
              rows |-> <<Tweet(Some(1), Some(NYC), <<"b">>)>>]]

RawFiles == {FileCorrupted, FileEmpty, FileNoText, FileValidA, FileValidB}

\* lines 83-89: an empty frame is returned as it is, any other is filtered
read_tweet_dataframe(file) ==
  IF file.frame.rows = <<>>
    THEN [raised |-> FALSE, hasText |-> file.frame.hasText, rows |-> <<>>]
    ELSE LET res == filter_dataframe(file.frame)
         IN [raised |-> res.raised,
             hasText |-> file.frame.hasText,
             rows |-> res.rows]

RECURSIVE TokenizeColumn(_, _)
\* df[column].map(self.tokenize): the cache after the calls, in row order
TokenizeColumn(cache, column) ==
  IF column = <<>>
    THEN cache
    ELSE TokenizeColumn(lru_tokenize(cache, Head(column)).cache, Tail(column))

Column(rows, field) == [i \in 1..Len(rows) |-> rows[i][field]]

\* lines 264-267: the name of the file a task writes
TargetName(i, file, prefix) ==
  IF ~IsNone(prefix) THEN <<Val(prefix), i>> ELSE <<file.name, i>>

\* lines 253-282. status is "raised" when an exception leaves the task.
read_file(i, file, prefix, cache) ==
  IF file.corrupted
    THEN [status |-> "done", result |-> 0, cache |-> cache, written |-> {}]
    ELSE
      LET rd == read_tweet_dataframe(file)
      IN IF rd.raised
           THEN [status |-> "raised", result |-> 0, cache |-> cache,
                 written |-> {}]
           ELSE IF ~rd.hasText \/ rd.rows = <<>>
             THEN [status |-> "done", result |-> 0, cache |-> cache,
                   written |-> {}]
             ELSE
               [status |-> "done",
                result |-> Len(rd.rows),
                cache |-> TokenizeColumn(
                            TokenizeColumn(
                              TokenizeColumn(cache, Column(rd.rows, "text")),
                              Column(rd.rows, "description")),
                            Column(rd.rows, "name")),
                written |-> {<<TargetName(i, file, prefix), Len(rd.rows)>>}]

\* lines 284-294: the target directory and one task per file
StartImport(files, target, prefix) ==
  /\ file_names' = files
  /\ target_path' = Some(target)
  /\ file_prefix' = prefix
  /\ taskState' = [i \in 1..Len(files) |-> "pending"]
  /\ taskResult' = [i \in 1..Len(files) |-> 0]
  /\ targetFiles' = {}
  /\ read_tweets' = 0
  /\ importPc' = "running"

Batches == UNION {[1..n -> RawFiles] : n \in 0..MaxFiles}

ImportFiles ==
  /\ importPc = "idle"
  /\ \E files \in Batches, prefix \in {None, Some("tweets.partition")} :
       StartImport(files, <<"json">>, prefix)
  /\ UNCHANGED <<otherVars, prepVars, tokVars, configVars, filterVars, tokConfigVars, dateVars>>

\* a worker of the pool runs one pending task
ReadFile ==
  /\ importPc = "running"
  /\ \E i \in 1..Len(file_names) :
       /\ taskState[i] = "pending"
       /\ LET res == read_file(i, file_names[i], file_prefix, token_cache)
          IN /\ taskState' = [taskState EXCEPT ![i] = res.status]
             /\ taskResult' = [taskResult EXCEPT ![i] = res.result]
             /\ targetFiles' = targetFiles \cup res.written
             /\ token_cache' = res.cache
  /\ UNCHANGED <<otherVars, prepVars, file_names, target_path, file_prefix, read_tweets, importPc,
                 tokCallVars, configVars, filterVars, tokConfigVars, dateVars>>

\* line 295: every task returned, and the results are summed
ImportDone ==
  /\ importPc = "running"
  /\ \A i \in 1..Len(file_names) : taskState[i] = "done"
  /\ read_tweets' = SumSeq(taskResult)
  /\ importPc' = "done"
  /\ UNCHANGED <<otherVars, prepVars, file_names, target_path, file_prefix, taskState, taskResult,
                 targetFiles, tokVars, configVars, filterVars, tokConfigVars,
                 dateVars>>

\* line 295: dask.compute raises the exception of a task that raised
ImportRaise ==
  /\ importPc = "running"
  /\ \E i \in 1..Len(file_names) : taskState[i] = "raised"
  /\ importPc' = "raised"
  /\ UNCHANGED <<otherVars, prepVars, file_names, target_path, file_prefix, taskState, taskResult,
                 targetFiles, read_tweets, tokVars, configVars, filterVars,
                 tokConfigVars, dateVars>>

ImportIdle ==
  /\ file_names = <<>>
  /\ target_path = None
  /\ file_prefix = None
  /\ taskState = <<>>
  /\ taskResult = <<>>
  /\ targetFiles = {}
  /\ read_tweets = 0
  /\ importPc = "idle"

\* the importer's filters in the import runs
ImportFilters ==
  /\ location \in [accept_unknown : BOOLEAN,
                    patterns : {Some(<< <<"n", "y">> >>)},
                    blacklist : {None}]
  /\ terms \in [patterns : {None, Some(<< <<"a">> >>)},
                 blacklist : {None, Some(<< <<"b">> >>)}]
  /\ automaton = BuildAutomaton(terms)

(***************************************************************************)
(* import_date                                                             *)
(***************************************************************************)
SecondsPerMinute == 60
SecondsPerHour == 3600
SecondsPerDay == 86400
\* the defaults of import_date: periods=24 * 6, freq="10t"
DefaultPeriods == 144
DefaultFreq == 600

\* pd.to_datetime(date): midnight of the calendar day, as naive seconds
ToDatetime(day) == day * SecondsPerDay

\* self.timezone.localize(date).astimezone(pytz.utc)
LocalizeToUtc(naive, offset) == naive - offset

\* date.strftime("%Y%m%d%H%M"): the day, the hour and the minute; the
\* seconds are not part of the name
Strftime(t) ==
  <<t \div SecondsPerDay,
    (t % SecondsPerDay) \div SecondsPerHour,
    (t % SecondsPerHour) \div SecondsPerMinute>>

\* pd.date_range(start, periods=periods, freq=freq)
DateRange(start, periods, freq) ==
  [k \in 1..periods |-> start + (k - 1) * freq]

\* the raw file found under source_path for a timestamp: the files of the
\* odd minutes hold tweets without a text column
SourceFile(stamp) ==
  [name |-> stamp, corrupted |-> FALSE,
   frame |-> [hasText |-> stamp[3] % 2 = 0,
              rows |-> <<Tweet(Some(1), Some(NY), <<"a">>)>>]]

\* lines 234-245: the files of the range that exist, in the loop's order
TaskFiles(range) ==
  LET paths == [k \in 1..Len(range) |-> Strftime(range[k])]
      found == SelectSeq(paths, LAMBDA q : q \in sourceFiles)
  IN [i \in 1..Len(found) |-> SourceFile(found[i])]

\* lines 215-251, for a source_path that exists
import_date(day, periods, freq) ==
  LET data_date == LocalizeToUtc(ToDatetime(day), timezone)
      range == DateRange(data_date, periods, freq)
  IN /\ resolved' = range
     /\ dateCall' = Some([date |-> day, periods |-> periods, freq |-> freq])
     /\ StartImport(TaskFiles(range), <<"raw", "json", day>>,
                    Some("tweets.partition"))

\* the greatest number of periods of a call other than the default
MaxPeriods == 3
Days == {1, 2}
Freqs == {30, SecondsPerMinute, DefaultFreq}
UtcOffsets == {0 - 3 * SecondsPerHour, 0, SecondsPerHour}

\* the types of the values passed as source_path
SourcePathTypes == {"str", "Path", "NoneType"}

\* the check of lines 219-227 without the test of existence
SourcePathValidByType(type, exists) == type \in {"str", "Path"}

\* lines 219-227: a str or a Path, of a directory that exists
SourcePathValid(type, exists) == type \in {"str", "Path"} /\ exists

\* lines 215-251: the ValueError of lines 222 and 227, or the import
ImportDate ==
  /\ importPc = "idle"
  /\ \E type \in SourcePathTypes, day \in Days,
        periods \in (1..MaxPeriods) \cup {DefaultPeriods}, freq \in Freqs :
       /\ sourceArg' = Some(type)
       /\ IF SourcePathValid(type, sourceExists)
            THEN /\ dateRaised' = None
                 /\ import_date(day, periods, freq)
            ELSE /\ dateRaised' = Some("ValueError")
                 /\ UNCHANGED <<dateCall, resolved, importVars>>
  /\ UNCHANGED <<otherVars, prepVars, timezone, sourceFiles, sourceExists, tokVars,
                 configVars, filterVars, tokConfigVars>>

\* the files under source_path: some of those of the first minutes of day 1
InitDate ==
  /\ timezone \in UtcOffsets
  /\ sourceExists \in BOOLEAN
  /\ sourceFiles \in
       IF sourceExists
         THEN SUBSET {Strftime(LocalizeToUtc(ToDatetime(1), timezone) + d) :
                        d \in {0, SecondsPerMinute, DefaultFreq}}
         ELSE {{}}
  /\ dateCall = None
  /\ resolved = <<>>
  /\ sourceArg = None
  /\ dateRaised = None

DateIdle ==
  /\ timezone = 0
  /\ sourceFiles = {}
  /\ dateCall = None
  /\ resolved = <<>>
  /\ sourceExists = FALSE
  /\ sourceArg = None
  /\ dateRaised = None

(***************************************************************************)
(* prepare_experiment: the interim partitions                              *)
(***************************************************************************)
Edge(s, t, f) == [source |-> s, target |-> t, frequency |-> f]
TweetCount(u, n) == [user_id |-> u, frequency |-> n]
Url(host) == [scheme |-> "https", host |-> host]
User(u, name, description, url) ==
  [user_id |-> u, name_tokens |-> name, description_tokens |-> description,
   url |-> url]
Term(u, t, f) == [user_id |-> u, token |-> t, frequency |-> f]
DomainCount(u, d, f) == [user_id |-> u, domain |-> d, frequency |-> f]

\* the files of the data_paths of one state of the interim folders; every
\* list is the concatenation of the partitions that dd_from_paths reads
DatasetA ==
  [edges |-> [reply |-> <<Edge(1, 2, 1), Edge(1, 2, 2)>>,
              quote |-> <<Edge(3, 5, 1)>>,
              retweet |-> <<Edge(2, 4, 1)>>],
   tweets_per_user |-> <<TweetCount(1, 5), TweetCount(2, 3), TweetCount(1, 1),
                         TweetCount(3, 2)>>,
   unique_users |->
     <<User(1, <<"N", "y">>, <<"y">>, Some(Url(<<"www", "a", "com">>))),
       User(2, <<"n">>, <<"y", "!">>, None),
       User(3, <<"n">>, <<"n">>, Some(Url(<<"b", "org">>))),
       User(1, <<"n">>, <<"y">>, Some(Url(<<"a", "com">>)))>>,
   tweet_vocabulary |-> <<Term(1, "n", 60), Term(2, "n", 10), Term(2, "y", 55),
                          Term(9, "n", 70), Term(1, "!", 90)>>,
   user_urls |-> <<DomainCount(1, "d1", 30), DomainCount(1, "d1", 30),
                   DomainCount(2, "d2", 50), DomainCount(9, "d1", 5),
                   DomainCount(2, "d3", 1)>>]

\* other users are the most active and other tokens and domains the most
\* frequent
DatasetB ==
  [edges |-> [reply |-> <<Edge(2, 1, 1)>>,
              quote |-> <<Edge(2, 3, 1)>>,
              retweet |-> <<Edge(3, 4, 2), Edge(1, 5, 1)>>],
   tweets_per_user |-> <<TweetCount(2, 7), TweetCount(1, 2), TweetCount(3, 1)>>,
   unique_users |->
     <<User(2, <<"y">>, <<"n">>, Some(Url(<<"b", "org">>))),
       User(1, <<"y", "n">>, <<"n">>, Some(Url(<<"b", "org">>))),
       User(3, <<"y">>, <<"n", "y">>, None)>>,
   tweet_vocabulary |-> <<Term(2, "y", 80), Term(1, "n", 50)>>,
   user_urls |-> <<DomainCount(2, "d2", 80), DomainCount(1, "d1", 55)>>]

\* as DatasetA, but no domain is linked 50 times
DatasetC ==
  [DatasetA EXCEPT !.user_urls = <<DomainCount(1, "d1", 10)>>]

DatasetNames == {"A", "B", "C"}
Dataset(name) ==
  CASE name = "A" -> DatasetA
    [] name = "B" -> DatasetB
    [] name = "C" -> DatasetC

\* experiments.toml: the thresholds table of the project; tweet_tokens is not
\* set and takes the default of its call site
Thresholds ==
  [name_tokens |-> 2, description_tokens |-> 2, tweet_tokens |-> 50,
   profile_domains |-> 1, profile_tlds |-> 1]

\* line 203: the min_freq that main passes to group_user_urls
UrlsMinFreq == 50

(***************************************************************************)
(* prepare_experiment: helpers of the frames                               *)
(***************************************************************************)
Max(S) == CHOOSE x \in S : \A y \in S : y <= x

\* the orders of the elements of S
Orders(S) ==
  {p \in [1..Cardinality(S) -> S] :
     \A i, j \in 1..Cardinality(S) : i # j => p[i] # p[j]}

\* sort_values(ascending=False) on a table key -> frequency: the orders of
\* the keys by descending frequency (the order of equal frequencies is not
\* specified)
SortDescending(table) ==
  {p \in Orders(DOMAIN table) :
     \A i, j \in 1..Len(p) : i < j => table[p[i]] >= table[p[j]]}

\* groupby(key)["frequency"].sum(), keys[i] being the key of rows[i]:
\* key -> sum of the frequencies of its rows
GroupSum(rows, keys) ==
  [k \in Range(keys) |->
     SumSeq([i \in 1..Len(rows) |->
               IF keys[i] = k THEN rows[i].frequency ELSE 0])]

\* groupby(key).size()
GroupSize(keys) ==
  [k \in Range(keys) |-> Cardinality({i \in 1..Len(keys) : keys[i] = k})]

\* the column (or columns) of a frame that a groupby takes as key
SourceTarget(rows) ==
  [i \in 1..Len(rows) |-> <<rows[i].source, rows[i].target>>]

\* drop_duplicates(subset="user.id", keep="last")
DropDuplicates(rows) ==
  LET keep == {i \in 1..Len(rows) :
                 \A j \in (i + 1)..Len(rows) : rows[j].user_id # rows[i].user_id}
      F[i \in 0..Len(rows)] ==
        IF i = 0 THEN <<>>
        ELSE IF i \in keep THEN Append(F[i - 1], rows[i]) ELSE F[i - 1]
  IN F[Len(rows)]

\* a vocabulary file: token -> token_id from its rows (set_index("token")
\* ["token_id"].to_dict())
TokenToId(vocabulary) ==
  [t \in {vocabulary[i].token : i \in 1..Len(vocabulary)} |->
     (CHOOSE i \in 1..Len(vocabulary) : vocabulary[i].token = t) - 1]

\* assign(token_id=lambda x: range(len(x))) on the keys in order
WithTokenIds(order, table) ==
  [i \in 1..Len(order) |->
     [token |-> order[i], frequency |-> table[order[i]], token_id |-> i - 1]]

\* a sparse matrix: its shape, its non-zero cells, and the two mappings its
\* build indexed rows and columns with
Matrix(nrows, ncols, cells, rowIds, colIds) ==
  [shape |-> <<nrows, ncols>>, cells |-> cells, rows |-> rowIds,
   cols |-> colIds]

(***************************************************************************)
(* prepare_experiment: the artifacts under processed_path                  *)
(***************************************************************************)
Layers == {"reply", "quote", "retweet"}
TokenColumns == {"name_tokens", "description_tokens"}

\* the targets of the stages, under processed_path
Files ==
  [edges |-> [n \in Layers |-> <<"user", n, "edges.all.json.gz">>],
   total_tweets |-> <<"user.total_tweets.json.gz">>,
   unique |-> <<"user.unique.json.gz">>,
   elem_ids |-> <<"user.elem_ids.json.gz">>,
   histogram |-> <<"discussion.component_histogram.csv.gz">>,
   vocabulary |-> [c \in TokenColumns |-> <<"user", c, "all.json.gz">>],
   relevant_vocabulary |->
     [c \in TokenColumns |-> <<"user", c, "relevant.json.gz">>],
   token_matrix |-> [c \in TokenColumns |-> <<"user", c, "matrix.npz">>],
   tweet_vocabulary |-> <<"user.tweet_vocabulary.all.json.gz">>,
   relevant_tweet_vocabulary |-> <<"user.tweet_vocabulary.relevant.json.gz">>,
   tweet_matrix |-> <<"user.tweets.matrix.npz">>,
   target_ids |-> [n \in Layers |-> <<"network", n, "target_ids.json.gz">>],
   adjacency_matrix |-> [n \in Layers |-> <<"network", n, "matrix.npz">>],
   domains |-> <<"user.domains.all.json.gz">>,
   relevant_domains |-> <<"user.domains.relevant.json.gz">>,
   domains_matrix |-> <<"user.domains.matrix.npz">>,
   profile_domains |-> <<"user.profile_domains.relevant.json.gz">>,
   profile_domains_matrix |-> <<"user.profile_domains.matrix.npz">>,
   profile_tlds |-> <<"user.profile_tlds.relevant.json.gz">>,
   profile_tlds_matrix |-> <<"user.profile_tlds.matrix.npz">>]

Artifacts ==
  {Files.edges[n] : n \in Layers}
    \cup {Files.total_tweets, Files.unique, Files.elem_ids, Files.histogram}
    \cup {Files.vocabulary[c] : c \in TokenColumns}
    \cup {Files.relevant_vocabulary[c] : c \in TokenColumns}
    \cup {Files.token_matrix[c] : c \in TokenColumns}
    \cup {Files.tweet_vocabulary, Files.relevant_tweet_vocabulary, Files.tweet_matrix}
    \cup {Files.target_ids[n] : n \in Layers}
    \cup {Files.adjacency_matrix[n] : n \in Layers}
    \cup {Files.domains, Files.relevant_domains, Files.domains_matrix,
          Files.profile_domains, Files.profile_domains_matrix, Files.profile_tlds,
          Files.profile_tlds_matrix}

Exists(d, file) == ~IsNone(d[file])
ReadFrom(d, file) == Val(d[file])
WriteTo(d, file, content) == [d EXCEPT ![file] = Some(content)]

\* what a stage did: whether it returned (ok) or raised, the disk it left,
\* the files it wrote and the phases it skipped
Returned(d, wrote) == [ok |-> TRUE, disk |-> d, wrote |-> wrote, skip |-> {}]
Raised(d, wrote) == [ok |-> FALSE, disk |-> d, wrote |-> wrote, skip |-> {}]
Skipping(d, phase) == [ok |-> TRUE, disk |-> d, wrote |-> {}, skip |-> {phase}]

(***************************************************************************)
(* prepare_experiment: the stages.  A stage is the set of the outcomes it  *)
(* can have on a disk d; it has several where the order of a set or of     *)
(* equal sort keys decides.                                                *)
(***************************************************************************)
\* line 587
SkipInteractions(ow, d, name) == ~ow /\ Exists(d, Files.edges[name])

\* lines 575-599
group_user_interactions(d, data, ow, name) ==
  IF SkipInteractions(ow, d, name)
    THEN {Skipping(d, <<"group_user_interactions", name>>)}
    ELSE LET interactions ==
               GroupSum(data.edges[name], SourceTarget(data.edges[name]))
             rows == {Edge(p[1], p[2], interactions[p]) :
                        p \in DOMAIN interactions}
         IN {Returned(WriteTo(d, Files.edges[name], rows), {Files.edges[name]})}

\* line 229
SkipCountUserTweets(ow, d) == ~ow /\ Exists(d, Files.total_tweets)

\* lines 226-247
count_user_tweets(d, data, ow) ==
  IF SkipCountUserTweets(ow, d)
    THEN {Skipping(d, <<"count_user_tweets">>)}
    ELSE LET tweet_dd == GroupSum(data.tweets_per_user, Column(data.tweets_per_user, "user_id"))
         IN {Returned(WriteTo(d, Files.total_tweets, tweet_dd), {Files.total_tweets})}

\* lines 457-474: the edges of the three layers and their users
DiscussionEdges(d) ==
  UNION {{<<e.source, e.target>> : e \in ReadFrom(d, Files.edges[n])} :
           n \in Layers}
Nodes(E) == {e[1] : e \in E} \cup {e[2] : e \in E}

Neighbours(E, S) ==
  S \cup {e[2] : e \in {x \in E : x[1] \in S}}
    \cup {e[1] : e \in {x \in E : x[2] \in S}}

RECURSIVE Component(_, _)
Component(E, S) ==
  IF Neighbours(E, S) = S THEN S ELSE Component(E, Neighbours(E, S))

\* lines 492-494: label_components on the undirected graph
Components(E) == {Component(E, {n}) : n \in Nodes(E)}

\* a component of any size
AnyComponents(E) == Components(E)
\* lines 506-507: np.argmax takes the first of the largest components in
\* label order, which follows the iteration order of a set of ids
LargestComponents(E) ==
  {C \in Components(E) :
     \A D \in Components(E) : Cardinality(D) <= Cardinality(C)}

\* lines 456-509: the histogram is written, then the users of a largest
\* component are returned (np.argmax raises when there is no component);
\* the graph and its labelling are undirected whatever directed says
\* (lines 481-493)
find_nodes_in_discussion(d, directed) ==
  LET E == DiscussionEdges(d)
      histogram == [C \in Components(E) |-> Cardinality(C)]
      d1 == WriteTo(d, Files.histogram, histogram)
  IN IF Components(E) = {}
       THEN {[ok |-> FALSE, disk |-> d1, nodes |-> {}]}
       ELSE {[ok |-> TRUE, disk |-> d1, nodes |-> C] :
               C \in LargestComponents(E)}

\* the check with the flag inverted
SkipGroupUsersWhenOverwriting(ow, d) ==
  ow /\ Exists(d, Files.unique) /\ Exists(d, Files.elem_ids)

\* line 256
SkipGroupUsers(ow, d) ==
  ~ow /\ Exists(d, Files.unique) /\ Exists(d, Files.elem_ids)

\* row ids counted from 1
RowIdsFromOne(n) == [i \in 1..n |-> i]
\* line 287: assign(row_id=lambda x: range(len(x)))
RowIds(n) == [i \in 1..n |-> i - 1]

\* lines 273-289: the roster of the users kept, and its row ids
Roster(d, users) ==
  LET tweet_count == ReadFrom(d, Files.total_tweets)
      joined == SelectSeq(users, LAMBDA u : u.user_id \in DOMAIN tweet_count)
      counts == [u \in {joined[i].user_id : i \in 1..Len(joined)} |->
                   tweet_count[u]]
      row(u) == CHOOSE i \in 1..Len(joined) : joined[i].user_id = u
  IN {[unique |-> [i \in 1..Len(order) |->
                     [user |-> joined[row(order[i])],
                      dataset_tweets |-> counts[order[i]]]],
       elem_ids |-> [i \in 1..Len(order) |->
                       [user_id |-> order[i],
                        row_id |-> RowIds(Len(order))[i]]]] :
        order \in SortDescending(counts)}

WriteRoster(d, wrote, roster) ==
  Returned(WriteTo(WriteTo(d, Files.unique, roster.unique),
                   Files.elem_ids, roster.elem_ids),
           wrote \cup {Files.unique, Files.elem_ids})

\* lines 250-291
group_users(d, data, discussion, directed, ow) ==
  IF SkipGroupUsers(ow, d)
    THEN {Skipping(d, <<"group_users">>)}
    ELSE LET users == DropDuplicates(data.unique_users)
         IN IF ~discussion
              THEN {WriteRoster(d, {}, r) : r \in Roster(d, users)}
              ELSE UNION
                {IF ~found.ok
                   THEN {Raised(found.disk, {Files.histogram})}
                   ELSE {WriteRoster(found.disk, {Files.histogram}, r) :
                           r \in Roster(found.disk,
                                        SelectSeq(users,
                                          LAMBDA u : u.user_id \in found.nodes))} :
                   found \in find_nodes_in_discussion(d, directed)}

\* lines 144-148: user.id -> row_id of user.elem_ids.json.gz
ElemToId(elem_ids) ==
  [u \in {elem_ids[i].user_id : i \in 1..Len(elem_ids)} |->
     elem_ids[CHOOSE i \in 1..Len(elem_ids) : elem_ids[i].user_id = u].row_id]

(***************************************************************************)
(* tsundoku.features.dtm and tsundoku.features.helpers                     *)
(***************************************************************************)
RECURSIVE Flatten(_)
Flatten(lists) ==
  IF lists = <<>> THEN <<>> ELSE Head(lists) \o Flatten(Tail(lists))

\* build_vocabulary: token -> number of occurrences in the column
build_vocabulary(rows, column, to_lower) ==
  LET tokens == Flatten([i \in 1..Len(rows) |-> rows[i][column]])
      cased == IF to_lower THEN Lower(tokens) ELSE tokens
  IN [t \in Range(cased) |-> Len(SelectSeq(cased, LAMBDA x : x = t))]

Punctuation == {"!"}
\* the tokens of the model in lexicographic order
Alphabet == <<"!", "N", "Y", "n", "y">>
LexRank(t) == CHOOSE i \in 1..Len(Alphabet) : Alphabet[i] = t

\* filter_vocabulary: the entries at or above min_freq, without punctuation
\* and stopwords, with dense token ids by descending frequency, ties in
\* lexicographic order
filter_vocabulary(vocabulary, min_freq, stop, remove_punctuation) ==
  LET kept == {t \in DOMAIN vocabulary :
                 /\ vocabulary[t] >= min_freq
                 /\ remove_punctuation => t \notin Punctuation
                 /\ t \notin stop}
      order == CHOOSE p \in Orders(kept) :
                 \A i, j \in 1..Len(p) :
                   i < j => \/ vocabulary[p[i]] > vocabulary[p[j]]
                            \/ /\ vocabulary[p[i]] = vocabulary[p[j]]
                               /\ LexRank(p[i]) < LexRank(p[j])
  IN WithTokenIds(order, vocabulary)

\* tokens_to_document_term_matrix, summed over the partitions: a cell counts
\* the occurrences of a token of the vocabulary in the rows of a user of
\* id_to_row
tokens_to_document_term_matrix(rows, column, token_to_id, id_to_row) ==
  LET hits(i) == SelectSeq(Lower(rows[i][column]),
                           LAMBDA t : t \in DOMAIN token_to_id)
      known == {i \in 1..Len(rows) : rows[i].user_id \in DOMAIN id_to_row}
      cell == {<<id_to_row[rows[i].user_id], token_to_id[t]>> :
                 i \in known, t \in DOMAIN token_to_id}
      count(c) ==
        SumSeq([i \in 1..Len(rows) |->
                  IF i \in known /\ id_to_row[rows[i].user_id] = c[1]
                    THEN Len(SelectSeq(hits(i),
                                       LAMBDA t : token_to_id[t] = c[2]))
                    ELSE 0])
  IN Matrix(Cardinality(DOMAIN id_to_row), Cardinality(DOMAIN token_to_id),
            [c \in {x \in cell : count(x) > 0} |-> count(c)],
            id_to_row, token_to_id)

(***************************************************************************)
(* prepare_experiment: the matrices                                        *)
(***************************************************************************)
\* lines 318-320
SkipVocabulary(ow, d, column) ==
  ~ow /\ Exists(d, Files.vocabulary[column])
      /\ Exists(d, Files.relevant_vocabulary[column])

\* the existence check without "not overwrite"
SkipTokenMatrixIgnoringOverwrite(ow, d, column) ==
  Exists(d, Files.token_matrix[column])

\* line 344
SkipTokenMatrix(ow, d, column) == ~ow /\ Exists(d, Files.token_matrix[column])

\* lines 294-365
build_vocabulary_and_matrix(d, data, column, e2id, min_freq, ow) ==
  LET skip1 == SkipVocabulary(ow, d, column)
      vocabulary == build_vocabulary(data.unique_users, column, TRUE)
      computed == filter_vocabulary(vocabulary, min_freq, {}, TRUE)
      d1 == IF skip1
              THEN d
              ELSE WriteTo(WriteTo(d, Files.vocabulary[column], vocabulary),
                           Files.relevant_vocabulary[column], computed)
      wrote1 == IF skip1
                  THEN {}
                  ELSE {Files.vocabulary[column], Files.relevant_vocabulary[column]}
      skip2 == SkipTokenMatrix(ow, d1, column)
      relevant_vocabulary ==
        IF skip1 THEN ReadFrom(d1, Files.relevant_vocabulary[column])
                 ELSE computed
      token_matrix ==
        tokens_to_document_term_matrix(data.unique_users, column,
                                       TokenToId(relevant_vocabulary), e2id)
  IN {[ok |-> TRUE,
       disk |-> IF skip2 THEN d1
                         ELSE WriteTo(d1, Files.token_matrix[column], token_matrix),
       wrote |-> IF skip2 THEN wrote1
                          ELSE wrote1 \cup {Files.token_matrix[column]},
       skip |-> (IF skip1
                   THEN {<<"build_vocabulary_and_matrix", column, "vocabulary">>}
                   ELSE {})
                \cup (IF skip2
                        THEN {<<"build_vocabulary_and_matrix", column, "matrix">>}
                        ELSE {})]}

\* dok_matrix((max(elem_to_id.values()) + 1, max(token_to_id.values()) + 1))
DtmShape(e2id, token_to_id) ==
  <<Max({e2id[u] : u \in DOMAIN e2id}) + 1,
    Max({token_to_id[t] : t \in DOMAIN token_to_id}) + 1>>

\* the builds of lines 437-449 and 642-653: the cell of a (user, token) pair
\* of the frequencies, for the users of elem_to_id
DtmOf(frequencies, e2id, token_to_id) ==
  LET pairs == {p \in DOMAIN frequencies : p[1] \in DOMAIN e2id}
      shape == DtmShape(e2id, token_to_id)
  IN Matrix(shape[1], shape[2],
            [c \in {<<e2id[p[1]], token_to_id[p[2]]>> : p \in pairs} |->
               frequencies[CHOOSE p \in pairs :
                             <<e2id[p[1]], token_to_id[p[2]]>> = c]],
            e2id, token_to_id)

\* lines 384-386
SkipTweetVocabulary(ow, d) ==
  ~ow /\ Exists(d, Files.tweet_vocabulary)
      /\ Exists(d, Files.relevant_tweet_vocabulary)

\* line 411
SkipTweetMatrix(ow, d) == ~ow /\ Exists(d, Files.tweet_matrix)

\* lines 368-453
build_user_tweets_term_matrix(d, data, e2id, min_freq, ow) ==
  LET term_frequencies == data.tweet_vocabulary
      skip1 == SkipTweetVocabulary(ow, d)
      full_vocabulary == GroupSum(term_frequencies, Column(term_frequencies, "token"))
      computed == filter_vocabulary(full_vocabulary, min_freq, {}, TRUE)
      d1 == IF skip1
              THEN d
              ELSE WriteTo(WriteTo(d, Files.tweet_vocabulary, full_vocabulary),
                           Files.relevant_tweet_vocabulary, computed)
      wrote1 == IF skip1 THEN {}
                ELSE {Files.tweet_vocabulary, Files.relevant_tweet_vocabulary}
      skips1 == IF skip1
                  THEN {<<"build_user_tweets_term_matrix", "vocabulary">>}
                  ELSE {}
      relevant_full_vocabulary ==
        IF skip1 THEN ReadFrom(d1, Files.relevant_tweet_vocabulary) ELSE computed
      tweet_token_to_id == TokenToId(relevant_full_vocabulary)
      kept == SelectSeq(term_frequencies,
                        LAMBDA r : /\ r.user_id \in DOMAIN e2id
                                   /\ r.token \in DOMAIN tweet_token_to_id)
      user_tweet_frequency ==
        GroupSum(kept, [i \in 1..Len(kept) |-> <<kept[i].user_id, kept[i].token>>])
  IN IF SkipTweetMatrix(ow, d1)
       THEN {[ok |-> TRUE, disk |-> d1, wrote |-> wrote1,
              skip |-> skips1
                         \cup {<<"build_user_tweets_term_matrix", "matrix">>}]}
       ELSE IF DOMAIN e2id = {} \/ DOMAIN tweet_token_to_id = {}
         THEN {[ok |-> FALSE, disk |-> d1, wrote |-> wrote1, skip |-> skips1]}
         ELSE {[ok |-> TRUE,
                disk |-> WriteTo(d1, Files.tweet_matrix,
                                 DtmOf(user_tweet_frequency, e2id,
                                       tweet_token_to_id)),
                wrote |-> wrote1 \cup {Files.tweet_matrix},
                skip |-> skips1]}

\* line 524
SkipNetwork(ow, d, name) ==
  ~ow /\ Exists(d, Files.target_ids[name]) /\ Exists(d, Files.adjacency_matrix[name])

\* a square matrix over the roster
NetworkShapeOfRoster(e2id, id_to_node) ==
  <<Cardinality(DOMAIN e2id), Cardinality(DOMAIN e2id)>>

\* lines 559-561
NetworkShape(e2id, id_to_node) ==
  <<Cardinality(DOMAIN e2id), Cardinality(DOMAIN id_to_node)>>

\* lines 512-572
build_network(d, name, e2id, ow) ==
  IF SkipNetwork(ow, d, name)
    THEN {Skipping(d, <<"build_network", name>>)}
    ELSE
      LET edges == {e \in ReadFrom(d, Files.edges[name]) :
                      e.source \in DOMAIN e2id}
          unique_user_ids == {e.source : e \in edges}
                               \cup {e.target : e \in edges}
          non_dataset == {u \in unique_user_ids : u \notin DOMAIN e2id}
          id_to_node(order) ==
            [u \in DOMAIN e2id \cup non_dataset |->
               IF u \in DOMAIN e2id
                 THEN e2id[u]
                 ELSE Cardinality(DOMAIN e2id)
                        + (CHOOSE i \in 1..Len(order) : order[i] = u) - 1]
          matrix(nodes) ==
            LET shape == NetworkShape(e2id, nodes)
            IN Matrix(shape[1], shape[2],
                      [c \in {<<nodes[e.source], nodes[e.target]>> :
                                e \in edges} |->
                         (CHOOSE e \in edges :
                            <<nodes[e.source], nodes[e.target]>> = c).frequency],
                      e2id, nodes)
      IN {Returned(WriteTo(WriteTo(d, Files.target_ids[name], id_to_node(order)),
                           Files.adjacency_matrix[name], matrix(id_to_node(order))),
                   {Files.target_ids[name], Files.adjacency_matrix[name]}) :
            order \in Orders(non_dataset)}

\* line 611
SkipUserUrls(ow, d) == ~ow /\ Exists(d, Files.domains_matrix)

\* lines 602-655
group_user_urls(d, data, e2id, min_freq, ow) ==
  IF SkipUserUrls(ow, d)
    THEN {Skipping(d, <<"group_user_urls">>)}
    ELSE
      LET urls == GroupSum(data.user_urls,
                           [i \in 1..Len(data.user_urls) |->
                              <<data.user_urls[i].user_id,
                                data.user_urls[i].domain>>])
          \* the sum over the (user, domain) sums is the sum over the rows
          url_frequency == GroupSum(data.user_urls, Column(data.user_urls, "domain"))
          outcome(order) ==
            LET relevant == SelectSeq(order,
                                      LAMBDA x : url_frequency[x] >= min_freq)
                url_frequency_relevant == WithTokenIds(relevant, url_frequency)
                url_to_id == TokenToId(url_frequency_relevant)
                urls_relevant ==
                  [p \in {q \in DOMAIN urls : q[2] \in DOMAIN url_to_id} |->
                     urls[p]]
                d1 == WriteTo(WriteTo(d, Files.domains,
                                      [i \in 1..Len(order) |->
                                         [domain |-> order[i],
                                          frequency |-> url_frequency[order[i]]]]),
                              Files.relevant_domains, url_frequency_relevant)
            IN IF DOMAIN e2id = {} \/ DOMAIN url_to_id = {}
                 THEN Raised(d1, {Files.domains, Files.relevant_domains})
                 ELSE Returned(WriteTo(d1, Files.domains_matrix,
                                       DtmOf(urls_relevant, e2id, url_to_id)),
                               {Files.domains, Files.relevant_domains,
                                Files.domains_matrix})
      IN {outcome(order) : order \in SortDescending(url_frequency)}

\* tsundoku.features.urls.get_domain: the host of the URL
get_domain(url) == url.host

\* lines 687-692: the last two labels of the host, and the last one
MainDomain(host) ==
  SubSeq(host, IF Len(host) > 2 THEN Len(host) - 1 ELSE 1, Len(host))
Tld(main_domain) == SubSeq(main_domain, Len(main_domain), Len(main_domain))

\* lines 679-692
ProfileUrls(users) ==
  LET with_url == SelectSeq(users, LAMBDA u : ~IsNone(u.url))
  IN [i \in 1..Len(with_url) |->
        [user_id |-> with_url[i].user_id,
         main_domain |-> MainDomain(get_domain(Val(with_url[i].url))),
         tld |-> Tld(MainDomain(get_domain(Val(with_url[i].url))))]]

\* lines 694-702 and 730-736: the frequent keys of a size table
Frequent(table, min_freq) ==
  [k \in {x \in DOMAIN table : table[x] >= min_freq} |-> table[k]]

\* lines 711-721 and 745-755: 1 where a user of elem_to_id has a key of to_id
PresenceMatrix(profile_urls, column, e2id, to_id) ==
  LET shape == DtmShape(e2id, to_id)
      known == {i \in 1..Len(profile_urls) :
                  /\ profile_urls[i].user_id \in DOMAIN e2id
                  /\ profile_urls[i][column] \in DOMAIN to_id}
  IN Matrix(shape[1], shape[2],
            [c \in {<<e2id[profile_urls[i].user_id],
                      to_id[profile_urls[i][column]]>> : i \in known} |-> 1],
            e2id, to_id)

\* lines 673-675
SkipProfileDomains(ow, d) ==
  ~ow /\ Exists(d, Files.profile_domains_matrix)
      /\ Exists(d, Files.profile_tlds_matrix)

\* lines 658-762
group_profile_domains(d, data, e2id, min_freq, min_freq_tld, ow) ==
  IF SkipProfileDomains(ow, d)
    THEN {Skipping(d, <<"group_profile_domains">>)}
    ELSE
      LET profile_urls == ProfileUrls(data.unique_users)
          domains == Frequent(GroupSize(Column(profile_urls, "main_domain")),
                              min_freq)
          tlds == Frequent(GroupSize(Column(profile_urls, "tld")), min_freq_tld)
          outcome(domain_order, tld_order) ==
            LET profile_domains == WithTokenIds(domain_order, domains)
                domain_to_id == TokenToId(profile_domains)
                d1 == WriteTo(d, Files.profile_domains, profile_domains)
                d2 == WriteTo(d1, Files.profile_domains_matrix,
                              PresenceMatrix(profile_urls, "main_domain",
                                             e2id, domain_to_id))
                profile_tlds == WithTokenIds(tld_order, tlds)
                tld_to_id == TokenToId(profile_tlds)
                d3 == WriteTo(d2, Files.profile_tlds, profile_tlds)
                d4 == WriteTo(d3, Files.profile_tlds_matrix,
                              PresenceMatrix(profile_urls, "tld", e2id,
                                             tld_to_id))
            IN IF DOMAIN e2id = {} \/ DOMAIN domain_to_id = {}
                 THEN Raised(d1, {Files.profile_domains})
                 ELSE IF DOMAIN tld_to_id = {}
                   THEN Raised(d3, {Files.profile_domains,
                                    Files.profile_domains_matrix, Files.profile_tlds})
                   ELSE Returned(d4, {Files.profile_domains,
                                      Files.profile_domains_matrix,
                                      Files.profile_tlds, Files.profile_tlds_matrix})
      IN {outcome(domain_order, tld_order) :
            domain_order \in SortDescending(domains),
            tld_order \in SortDescending(tlds)}

(***************************************************************************)
(* prepare_experiment: main                                                *)
(***************************************************************************)
\* how many artifacts may be deleted between the runs of one behaviour
MaxDeletes == 1

\* lines 107-216: the calls of main, in order
MainSteps ==
  << <<"group_user_interactions", "reply">>,
     <<"group_user_interactions", "quote">>,
     <<"group_user_interactions", "retweet">>,
     <<"count_user_tweets">>,
     <<"group_users">>,
     <<"elem_to_id">>,
     <<"build_vocabulary_and_matrix", "name_tokens">>,
     <<"build_vocabulary_and_matrix", "description_tokens">>,
     <<"build_user_tweets_term_matrix">>,
     <<"build_network", "reply">>,
     <<"build_network", "quote">>,
     <<"build_network", "retweet">>,
     <<"group_user_urls">>,
     <<"group_profile_domains">> >>
LastStep == Len(MainSteps)
Stages == Range(MainSteps) \ {<<"elem_to_id">>}

\* the files a stage writes
StageArtifacts(stage) ==
  CASE stage[1] = "group_user_interactions" -> {Files.edges[stage[2]]}
    [] stage[1] = "count_user_tweets" -> {Files.total_tweets}
    [] stage[1] = "group_users" ->
         {Files.unique, Files.elem_ids, Files.histogram}
    [] stage[1] = "build_vocabulary_and_matrix" ->
         {Files.vocabulary[stage[2]], Files.relevant_vocabulary[stage[2]],
          Files.token_matrix[stage[2]]}
    [] stage[1] = "build_user_tweets_term_matrix" ->
         {Files.tweet_vocabulary, Files.relevant_tweet_vocabulary, Files.tweet_matrix}
    [] stage[1] = "build_network" ->
         {Files.target_ids[stage[2]], Files.adjacency_matrix[stage[2]]}
    [] stage[1] = "group_user_urls" ->
         {Files.domains, Files.relevant_domains, Files.domains_matrix}
    [] stage[1] = "group_profile_domains" ->
         {Files.profile_domains, Files.profile_domains_matrix, Files.profile_tlds,
          Files.profile_tlds_matrix}
    [] OTHER -> {}

\* the files a stage writes, in the order of its writes (lines 498-500 and
\* 279-286, 324-339 and 363, 389-406 and 452, 548-567, 620-654, 704-758)
WriteOrder(stage) ==
  CASE stage[1] = "group_user_interactions" -> <<Files.edges[stage[2]]>>
    [] stage[1] = "count_user_tweets" -> <<Files.total_tweets>>
    [] stage[1] = "group_users" ->
         <<Files.histogram, Files.unique, Files.elem_ids>>
    [] stage[1] = "build_vocabulary_and_matrix" ->
         <<Files.vocabulary[stage[2]], Files.relevant_vocabulary[stage[2]],
           Files.token_matrix[stage[2]]>>
    [] stage[1] = "build_user_tweets_term_matrix" ->
         <<Files.tweet_vocabulary, Files.relevant_tweet_vocabulary,
           Files.tweet_matrix>>
    [] stage[1] = "build_network" ->
         <<Files.target_ids[stage[2]], Files.adjacency_matrix[stage[2]]>>
    [] stage[1] = "group_user_urls" ->
         <<Files.domains, Files.relevant_domains, Files.domains_matrix>>
    [] stage[1] = "group_profile_domains" ->
         <<Files.profile_domains, Files.profile_domains_matrix,
           Files.profile_tlds, Files.profile_tlds_matrix>>
    [] OTHER -> <<>>

\* the parts of a stage that have a skip condition of their own, under the
\* names the stage logs its skips with, each with its files in write order:
\* the two matrix stages have a vocabulary phase and a matrix phase (lines
\* 318-346 and 380-413), every other stage is one phase
Phases(stage) ==
  CASE stage[1] = "build_vocabulary_and_matrix" ->
         {[name |-> <<stage[1], stage[2], "vocabulary">>,
           files |-> SubSeq(WriteOrder(stage), 1, 2)],
          [name |-> <<stage[1], stage[2], "matrix">>,
           files |-> SubSeq(WriteOrder(stage), 3, 3)]}
    [] stage[1] = "build_user_tweets_term_matrix" ->
         {[name |-> <<stage[1], "vocabulary">>,
           files |-> SubSeq(WriteOrder(stage), 1, 2)],
          [name |-> <<stage[1], "matrix">>,
           files |-> SubSeq(WriteOrder(stage), 3, 3)]}
    [] stage[1] = "elem_to_id" -> {}
    [] OTHER -> {[name |-> stage, files |-> WriteOrder(stage)]}

\* the phases whose last write the outcome res of the stage holds
PhasesCompleted(stage, res) ==
  {p.name : p \in {q \in Phases(stage) :
                     q.files[Len(q.files)] \in res.wrote}}

\* the phases that the outcome res left after some of their writes and
\* before their last one
PhasesInterrupted(stage, res) ==
  {p.name : p \in {q \in Phases(stage) :
                     /\ ~res.ok
                     /\ Range(q.files) \cap res.wrote # {}
                     /\ q.files[Len(q.files)] \notin res.wrote}}

AtStep(name) == running /\ MainSteps[prepPc][1] = name

\* the stage at prepPc had the outcome res: main goes on to its next call, or
\* the exception ends the run
Advance(res) ==
  /\ disk' = res.disk
  /\ written' = written \cup res.wrote
  /\ skipped' = skipped \cup res.skip
  /\ prepPc' = IF res.ok THEN prepPc + 1 ELSE prepPc
  /\ running' = (res.ok /\ prepPc < LastStep)
  /\ completed' = IF res.ok THEN completed \cup {MainSteps[prepPc]}
                            ELSE completed
  /\ interrupted' = (interrupted \ PhasesCompleted(MainSteps[prepPc], res))
                       \cup PhasesInterrupted(MainSteps[prepPc], res)
  /\ UNCHANGED <<inputs, discussion_only, overwrite, elem_to_id, deletes, cliVars,
                 importerVars, otherVars>>

\* line 45: int(config.get("n_jobs", 2)), config being the project table
DefaultJobs == 2
PoolSize(cfg) == IF IsNone(cfg.n_jobs) THEN DefaultJobs ELSE Val(cfg.n_jobs)

\* a check of the raw data root alone
InputsPresentRawRootOnly(raw_root, experiments_file) == raw_root
\* lines 50-54: source_path and experiment_file both exist
InputsPresent(raw_root, experiments_file) == raw_root /\ experiments_file

\* lines 32-98: a call of main: the pool is sized, the two inputs are
\* looked for, processed_path is made and the run starts
StartRun ==
  /\ ~running
  /\ pool' = Some(PoolSize(config))
  /\ IF InputsPresent(rawRootExists, experimentsFileExists)
       THEN /\ \E ow \in BOOLEAN : overwrite' = ow
            /\ prepPc' = 1
            /\ running' = TRUE
            /\ written' = {}
            /\ skipped' = {}
            /\ elem_to_id' = <<>>
            /\ processedExists' = TRUE
            /\ cliError' = None
       ELSE /\ cliError' = Some("FileNotFoundError")
            /\ UNCHANGED <<overwrite, prepPc, running, written, skipped,
                           elem_to_id, processedExists>>
  /\ UNCHANGED <<inputs, discussion_only, disk, completed, deletes,
                 interrupted, config,
                 rawRootExists, experimentsFileExists, importerVars, otherVars>>

\* between two calls of main, data/raw/json or experiments.toml is removed
\* or put back
ChangeProjectFiles ==
  /\ ~running
  /\ \E raw_root \in BOOLEAN, experiments_file \in BOOLEAN :
       /\ <<raw_root, experiments_file>>
            # <<rawRootExists, experimentsFileExists>>
       /\ rawRootExists' = raw_root
       /\ experimentsFileExists' = experiments_file
  /\ UNCHANGED <<inputs, discussion_only, overwrite, prepPc, running, disk,
                 elem_to_id, written, skipped, completed, deletes,
                 interrupted, config,
                 pool, processedExists, cliError, importerVars, otherVars>>

GroupUserInteractions ==
  /\ AtStep("group_user_interactions")
  /\ \E res \in group_user_interactions(disk, Dataset(inputs), overwrite,
                                        MainSteps[prepPc][2]) : Advance(res)

CountUserTweets ==
  /\ AtStep("count_user_tweets")
  /\ \E res \in count_user_tweets(disk, Dataset(inputs), overwrite) :
       Advance(res)

GroupUsers ==
  /\ AtStep("group_users")
  /\ \E discussion_directed \in BOOLEAN :
       \E res \in group_users(disk, Dataset(inputs), discussion_only,
                              discussion_directed, overwrite) : Advance(res)

\* lines 144-148: an empty file has no user.id column to index by
LoadElemToId ==
  /\ AtStep("elem_to_id")
  /\ LET elem_ids == ReadFrom(disk, Files.elem_ids)
     IN IF elem_ids = <<>>
          THEN /\ running' = FALSE
               /\ UNCHANGED <<elem_to_id, prepPc>>
          ELSE /\ elem_to_id' = ElemToId(elem_ids)
               /\ prepPc' = prepPc + 1
               /\ UNCHANGED running
  /\ UNCHANGED <<inputs, discussion_only, overwrite, disk, written, skipped,
                 completed, deletes, interrupted, cliVars,
                 importerVars, otherVars>>

BuildVocabularyAndMatrix ==
  /\ AtStep("build_vocabulary_and_matrix")
  /\ \E res \in build_vocabulary_and_matrix(
                  disk, Dataset(inputs), MainSteps[prepPc][2], elem_to_id,
                  Thresholds[MainSteps[prepPc][2]], overwrite) : Advance(res)

BuildUserTweetsTermMatrix ==
  /\ AtStep("build_user_tweets_term_matrix")
  /\ \E res \in build_user_tweets_term_matrix(
                  disk, Dataset(inputs), elem_to_id, Thresholds.tweet_tokens,
                  overwrite) : Advance(res)

BuildNetwork ==
  /\ AtStep("build_network")
  /\ \E res \in build_network(disk, MainSteps[prepPc][2], elem_to_id,
                              overwrite) : Advance(res)

GroupUserUrls ==
  /\ AtStep("group_user_urls")
  /\ \E res \in group_user_urls(disk, Dataset(inputs), elem_to_id,
                                UrlsMinFreq, overwrite) : Advance(res)

GroupProfileDomains ==
  /\ AtStep("group_profile_domains")
  /\ \E res \in group_profile_domains(
                  disk, Dataset(inputs), elem_to_id,
                  Thresholds.profile_domains, Thresholds.profile_tlds,
                  overwrite) : Advance(res)

\* lines 107-216: the outcomes of the call main is at
Outcomes ==
  LET stage == MainSteps[prepPc]
      data == Dataset(inputs)
  IN CASE stage[1] = "group_user_interactions" ->
            group_user_interactions(disk, data, overwrite, stage[2])
       [] stage[1] = "count_user_tweets" ->
            count_user_tweets(disk, data, overwrite)
       [] stage[1] = "group_users" ->
            UNION {group_users(disk, data, discussion_only, directed, overwrite) :
                     directed \in BOOLEAN}
       [] stage[1] = "build_vocabulary_and_matrix" ->
            build_vocabulary_and_matrix(disk, data, stage[2], elem_to_id,
                                        Thresholds[stage[2]], overwrite)
       [] stage[1] = "build_user_tweets_term_matrix" ->
            build_user_tweets_term_matrix(disk, data, elem_to_id,
                                          Thresholds.tweet_tokens, overwrite)
       [] stage[1] = "build_network" ->
            build_network(disk, stage[2], elem_to_id, overwrite)
       [] stage[1] = "group_user_urls" ->
            group_user_urls(disk, data, elem_to_id, UrlsMinFreq, overwrite)
       [] stage[1] = "group_profile_domains" ->
            group_profile_domains(disk, data, elem_to_id,
                                  Thresholds.profile_domains,
                                  Thresholds.profile_tlds, overwrite)
       [] OTHER -> {}

\* the stage that would have had the outcome res on the disk d ends after
\* its k-th write: the files written so far are as in res, the others as in d
Cut(d, res, order, k) ==
  LET done == SelectSeq(order, LAMBDA f : f \in res.wrote)
      kept == {done[i] : i \in 1..k}
  IN Raised([f \in Artifacts |-> IF f \in kept THEN res.disk[f] ELSE d[f]],
            kept)

\* the process is killed (or the machine stops) while a stage is between two
\* of its writes: the run ends there
Interrupt ==
  /\ running
  /\ \E res \in Outcomes :
       \E k \in 1..(Cardinality(res.wrote) - 1) :
         Advance(Cut(disk, res, WriteOrder(MainSteps[prepPc]), k))

\* between runs the importer writes other partitions
ChangeInputs ==
  /\ ~running
  /\ \E name \in DatasetNames \ {inputs} : inputs' = name
  /\ UNCHANGED <<discussion_only, overwrite, prepPc, running, disk,
                 elem_to_id, written, skipped, completed, deletes,
                 interrupted, cliVars,
                 importerVars, otherVars>>

\* between runs somebody deletes a file of processed_path
DeleteArtifact ==
  /\ ~running
  /\ deletes < MaxDeletes
  /\ \E file \in Artifacts :
       /\ Exists(disk, file)
       /\ disk' = [disk EXCEPT ![file] = None]
       /\ completed' = {s \in completed : file \notin StageArtifacts(s)}
  /\ deletes' = deletes + 1
  /\ UNCHANGED <<inputs, discussion_only, overwrite, prepPc, running,
                 elem_to_id, written, skipped, interrupted, cliVars,
                 importerVars, otherVars>>

\* config.toml without n_jobs, a project with its raw data and its
\* experiments.toml, before the first call of main
ProjectConfigs ==
  [n_jobs : {None, Some(3)}, environment : [n_jobs : {None, Some(4)}]]
DefaultConfig == [n_jobs |-> None, environment |-> [n_jobs |-> None]]
CliDefault ==
  /\ config = DefaultConfig
  /\ pool = None
  /\ rawRootExists = TRUE
  /\ experimentsFileExists = TRUE
  /\ processedExists = FALSE
  /\ cliError = None

\* an empty processed_path and an experiment of experiments.toml
InitPrepare ==
  /\ inputs \in DatasetNames
  /\ discussion_only \in BOOLEAN
  /\ overwrite = FALSE
  /\ prepPc = 0
  /\ running = FALSE
  /\ disk = [file \in Artifacts |-> None]
  /\ elem_to_id = <<>>
  /\ written = {}
  /\ skipped = {}
  /\ completed = {}
  /\ deletes = 0
  /\ interrupted = {}
  /\ CliDefault

PrepIdle ==
  /\ inputs = "A"
  /\ discussion_only = FALSE
  /\ overwrite = FALSE
  /\ prepPc = 0
  /\ running = FALSE
  /\ disk = [file \in Artifacts |-> None]
  /\ elem_to_id = <<>>
  /\ written = {}
  /\ skipped = {}
  /\ completed = {}
  /\ deletes = 0
  /\ interrupted = {}
  /\ CliDefault

(***************************************************************************)
(* models/classifier.py: PartiallyLabeledXGB and cross_validate.  A label  *)
(* vector y is a sequence over the classes and NaN; rows are numbered from *)
(* 0 as numpy numbers them, so row i of y is y[i + 1].  Fractions and      *)
(* probabilities are counted in tenths.                                    *)
(***************************************************************************)
MaxSamples == 4
MaxSplits == 3
MaxPredicted == 2

NaN == "nan"
ClassOrder == <<"a", "b">>
\* the label vectors handed to fit, fit_calibrate and cross_validate
Ys ==
  UNION {[1..n -> Range(ClassOrder) \cup {NaN}] : n \in 1..MaxSamples}
AllRows(y) == 0..(Len(y) - 1)
\* eval_fraction and val_fraction: 0, 0.1 (the default) and 0.5
Fractions == {0, 1, 5}

\* np.arange(len(y))[pd.notnull(y)], within the rows handed in
Labeled(y, rows) == {i \in rows : y[i + 1] # NaN}

CeilDiv(a, b) == (a + b - 1) \div b

SplitRaised == [raised |-> TRUE, train |-> {}, test |-> {}]
\* sklearn's train_test_split(test_size=tenths/10, stratify=...) over rows:
\* ceil(test_size * n) rows are held out, which ones is left to the random
\* state; it rejects an empty side and, stratified, a class of one member or
\* a side smaller than the number of classes
train_test_split(y, rows, tenths, stratify) ==
  LET n == Cardinality(rows)
      n_test == CeilDiv(tenths * n, 10)
      n_train == n - n_test
      classes == {y[i + 1] : i \in rows}
      accepted ==
        /\ tenths \in 1..9
        /\ n > 0 /\ n_train > 0
        /\ stratify =>
             /\ \A c \in classes :
                  Cardinality({i \in rows : y[i + 1] = c}) >= 2
             /\ n_train >= Cardinality(classes)
             /\ n_test >= Cardinality(classes)
  IN IF ~accepted
       THEN {SplitRaised}
       ELSE {[raised |-> FALSE, train |-> rows \ held, test |-> held] :
               held \in {s \in SUBSET rows : Cardinality(s) = n_test}}

FitRaised == [raised |-> TRUE, classes |-> {}]
\* self.xgb.fit over the training rows, then classes_ (line 47)
XgbFit(y, train) ==
  IF train = {}
    THEN FitRaised
    ELSE [raised |-> FALSE, classes |-> {y[i + 1] : i \in train}]

\* lines 18-47: fit over the rows of X, the outcomes the split allows
fit(y, rows, eval_set, eval_fraction) ==
  LET labeled_idx == Labeled(y, rows)
  IN IF eval_set
       THEN {XgbFit(y, labeled_idx)}
       ELSE IF eval_fraction > 0
         THEN {IF s.raised THEN FitRaised ELSE XgbFit(y, s.train) :
                 s \in train_test_split(y, labeled_idx, eval_fraction, TRUE)}
         ELSE {XgbFit(y, labeled_idx)}

\* lines 49-78: the outcomes of fit_calibrate: what self.xgb and
\* self.calibrated_clf hold after it
fit_calibrate(base, cal, y, val_fraction, eval_set, eval_fraction) ==
  LET labeled_idx == Labeled(y, AllRows(y))
  IN UNION {
       IF s.raised
         THEN {[raised |-> TRUE, xgb |-> base, calibrated_clf |-> cal]}
         ELSE {IF f.raised
                 THEN [raised |-> TRUE, xgb |-> base, calibrated_clf |-> cal]
                 ELSE [raised |-> FALSE, xgb |-> Some(f.classes),
                       calibrated_clf |-> Some("isotonic")] :
                 f \in fit(y, s.train, eval_set, eval_fraction)} :
       s \in train_test_split(y, labeled_idx, val_fraction, FALSE)}

\* a predict that never looks at the calibrated model
predictWithBase(cal) == "xgb"
\* lines 80-86: the model predict hands X to
predict(cal) == IF ~IsNone(cal) THEN "calibrated_clf" ELSE "xgb"
\* lines 88-92: the model predict_proba hands X to
predict_proba(cal) == IF ~IsNone(cal) THEN "calibrated_clf" ELSE "xgb"

\* self.xgb._le.classes_: the classes of the fit, sorted
SortedClasses(classes) == SelectSeq(ClassOrder, LAMBDA c : c \in classes)

\* what predict_proba can return for one row over m classes, in tenths
ProbaRows(m) ==
  IF m = 1 THEN {<<10>>} ELSE {<<4, 6>>, <<5, 5>>, <<6, 4>>, <<9, 1>>}
ProbaMatrices(m) ==
  UNION {[1..n -> ProbaRows(m)] : n \in 0..MaxPredicted}
MinProbabilities == {5, 6, 9}
\* non_labeled_value: None (the default), a word, the name of a class
NonLabeledValues == {"None", "unknown", "b"}

\* an abstention at the threshold too
AbstainsAtThreshold(max_probability, min_probability) ==
  max_probability <= min_probability
\* line 109: results.max_probability < min_probability
Abstains(max_probability, min_probability) ==
  max_probability < min_probability

\* lines 103-111, over the matrix predict_proba returned
classify_and_label(proba, classes, min_probability, non_labeled_value) ==
  [i \in 1..Len(proba) |->
     LET row == proba[i]
         max_probability == Max(Range(row))
         idxmax == CHOOSE j \in 1..Len(row) :
                     /\ row[j] = max_probability
                     /\ \A k \in 1..(j - 1) : row[k] # max_probability
     IN [proba |-> row,
         max_probability |-> max_probability,
         label |-> IF Abstains(max_probability, min_probability)
                     THEN non_labeled_value
                     ELSE classes[idxmax],
         source |-> "xgb"]]

\* line 123: null_name
null_name == "__null__"

KFoldRaised == [raised |-> TRUE, splits |-> <<>>]
\* sklearn's StratifiedKFold(n_splits).split(rows, y) without shuffling: the
\* classes are numbered by first appearance, the sorted vector is dealt
\* round-robin to the folds to fix how many rows of each class a fold gets,
\* and the rows of a class go to the folds in order; the training rows of a
\* split are the others
StratifiedKFold(y, n_splits) ==
  LET rows == AllRows(y)
      classes == {y[i + 1] : i \in rows}
      Members(c) == {i \in rows : y[i + 1] = c}
      First(c) == CHOOSE i \in Members(c) : \A j \in Members(c) : i <= j
      Start(c) == Cardinality({i \in rows : First(y[i + 1]) < First(c)})
      Slots(c) == Start(c)..(Start(c) + Cardinality(Members(c)) - 1)
      \* the rows of class c dealt to the folds 0..f
      UpTo(c, f) == Cardinality({j \in Slots(c) : j % n_splits <= f})
      Rank(i) == Cardinality({j \in Members(y[i + 1]) : j <= i})
      test_fold(i) ==
        CHOOSE f \in 0..(n_splits - 1) :
          /\ Rank(i) <= UpTo(y[i + 1], f)
          /\ Rank(i) > UpTo(y[i + 1], f - 1)
      test(f) == {i \in rows : test_fold(i) = f}
  IN IF \/ n_splits <= 1
        \/ n_splits > Len(y)
        \/ \A c \in classes : n_splits > Cardinality(Members(c))
       THEN KFoldRaised
       ELSE [raised |-> FALSE,
             splits |-> [f \in 1..n_splits |->
                           [train |-> rows \ test(f - 1),
                            test |-> test(f - 1)]]]

\* the caller's stratify_on: none, one of the length of y, one too long
StratifyOptions(y) ==
  {None,
   Some([i \in 1..Len(y) |-> IF i % 2 = 0 THEN "g" ELSE "h"]),
   Some([i \in 1..(Len(y) + 1) |-> "g"])}

\* a fold fitted on every row
FoldTrainRowsAll(split, y) == AllRows(y)
\* lines 137-140: y[idx_train], X[idx_train]
FoldTrainRows(split, y) == split.train

CvRaised == [raised |-> TRUE, outputs |-> <<>>]
\* lines 114-155; a report names the rows its classifier was fitted on, the
\* rows it was tested on and those of them with a label
cross_validate(y, stratify_on, n_splits, eval_fraction) ==
  LET stratify ==
        IF IsNone(stratify_on)
          THEN [i \in 1..Len(y) |-> IF y[i] = NaN THEN null_name ELSE y[i]]
          ELSE Val(stratify_on)
      skf == StratifiedKFold(stratify, n_splits)
      fitted(split) ==
        \E f \in fit(y, FoldTrainRows(split, y), FALSE, eval_fraction) :
          ~f.raised
      report(split) ==
        [train |-> FoldTrainRows(split, y),
         test |-> split.test,
         support |-> Labeled(y, split.test)]
  IN IF Len(stratify) # Len(y)
       THEN {CvRaised}
       ELSE IF skf.raised
         THEN {CvRaised}
         ELSE IF \E i \in 1..n_splits : ~fitted(skf.splits[i])
           THEN {CvRaised}
           ELSE {[raised |-> FALSE,
                  outputs |-> [i \in 1..n_splits |-> report(skf.splits[i])]]}
                \cup
                \* a report over no labeled row is left to the libraries
                (IF \E i \in 1..n_splits :
                      Labeled(y, skf.splits[i].test) = {}
                   THEN {CvRaised}
                   ELSE {})

Fit ==
  /\ \E eval_set \in BOOLEAN, eval_fraction \in Fractions :
       \E f \in fit(yData, AllRows(yData), eval_set, eval_fraction) :
         /\ xgb' = IF f.raised THEN xgb ELSE Some(f.classes)
         /\ clfOut' = [op |-> "fit", raised |-> f.raised]
  /\ UNCHANGED <<calibrated_clf, yData, cvArgs, calls, importerVars, prepVars>>

FitCalibrate ==
  /\ \E val_fraction \in Fractions, eval_set \in BOOLEAN,
        eval_fraction \in Fractions :
       \E f \in fit_calibrate(xgb, calibrated_clf, yData, val_fraction,
                              eval_set, eval_fraction) :
         /\ xgb' = f.xgb
         /\ calibrated_clf' = f.calibrated_clf
         /\ clfOut' = [op |-> "fit_calibrate", raised |-> f.raised]
  /\ UNCHANGED <<yData, cvArgs, calls, importerVars, prepVars>>

Predict ==
  /\ clfOut' = [op |-> "predict", raised |-> IsNone(xgb),
                model |-> predict(calibrated_clf)]
  /\ UNCHANGED <<xgb, calibrated_clf, yData, cvArgs, calls, importerVars,
                 prepVars>>

PredictProba ==
  /\ clfOut' = [op |-> "predict_proba", raised |-> IsNone(xgb),
                model |-> predict_proba(calibrated_clf)]
  /\ UNCHANGED <<xgb, calibrated_clf, yData, cvArgs, calls, importerVars,
                 prepVars>>

ClassifyAndLabel ==
  /\ IF IsNone(xgb)
       THEN clfOut' = [op |-> "classify_and_label", raised |-> TRUE]
       ELSE LET classes == SortedClasses(Val(xgb))
            IN \E proba \in ProbaMatrices(Len(classes)),
                  min_probability \in MinProbabilities,
                  non_labeled_value \in NonLabeledValues :
                 clfOut' =
                   [op |-> "classify_and_label", raised |-> FALSE,
                    model |-> predict_proba(calibrated_clf),
                    classes |-> classes,
                    proba |-> proba,
                    min_probability |-> min_probability,
                    non_labeled_value |-> non_labeled_value,
                    results |-> classify_and_label(proba, classes,
                                  min_probability, non_labeled_value)]
  /\ UNCHANGED <<xgb, calibrated_clf, yData, cvArgs, calls, importerVars,
                 prepVars>>

CrossValidate ==
  /\ ~IsNone(cvArgs)
  /\ \E out \in cross_validate(yData, Val(cvArgs).stratify_on,
                               Val(cvArgs).n_splits,
                               Val(cvArgs).eval_fraction) :
       clfOut' = [op |-> "cross_validate", raised |-> out.raised,
                  outputs |-> out.outputs]
  /\ UNCHANGED <<xgb, calibrated_clf, yData, cvArgs, calls, importerVars,
                 prepVars>>

\* PartiallyLabeledXGB.__init__ (lines 14-16), and a dataset
InitClassifier ==
  /\ xgb = None
  /\ calibrated_clf = None
  /\ clfOut = [op |-> "none", raised |-> FALSE]
  /\ yData \in Ys
  /\ cvArgs = None

\* the datasets of the calls of classify_and_label
LabelData == {<<"a", "a">>, <<"a", "b", NaN, "b">>}
InitLabel ==
  /\ xgb = None
  /\ calibrated_clf = None
  /\ clfOut = [op |-> "none", raised |-> FALSE]
  /\ yData \in LabelData
  /\ cvArgs = None

\* the arguments of a call of cross_validate
InitCrossValidate ==
  /\ xgb = None
  /\ calibrated_clf = None
  /\ clfOut = [op |-> "none", raised |-> FALSE]
  /\ yData \in Ys
  /\ \E stratify_on \in StratifyOptions(yData), n_splits \in 1..MaxSplits,
        eval_fraction \in Fractions :
       cvArgs = Some([stratify_on |-> stratify_on, n_splits |-> n_splits,
                      eval_fraction |-> eval_fraction])

ClfIdle ==
  /\ xgb = None
  /\ calibrated_clf = None
  /\ clfOut = [op |-> "none", raised |-> FALSE]
  /\ yData = <<>>
  /\ cvArgs = None

CallsIdle == calls = <<>>

vars == <<importerVars, prepVars, otherVars>>

InitFilter ==
  /\ ClfIdle /\ CallsIdle
  /\ configure_locations /\ configure_terms /\ FilterIdle
  /\ DefaultTokenizer /\ TokIdle /\ ImportIdle /\ DateIdle /\ PrepIdle
NextFilter == FilterCall
SpecFilter == InitFilter /\ [][NextFilter]_vars

InitTokenizer ==
  /\ ClfIdle /\ CallsIdle
  /\ NoFilters /\ FilterIdle /\ configure_tokenizer /\ TokIdle
  /\ ImportIdle /\ DateIdle /\ PrepIdle
NextTokenizer == TokenizeCall
SpecTokenizer == InitTokenizer /\ [][NextTokenizer]_vars

InitImport ==
  /\ ClfIdle /\ CallsIdle
  /\ ImportFilters /\ FilterIdle /\ DefaultTokenizer /\ TokIdle
  /\ ImportIdle /\ DateIdle /\ PrepIdle
NextImport ==
  \/ ImportFiles
  \/ ReadFile
  \/ ImportDone
  \/ ImportRaise
SpecImport == InitImport /\ [][NextImport]_vars

InitImportDate ==
  /\ ClfIdle /\ CallsIdle
  /\ ImportFilters /\ FilterIdle /\ DefaultTokenizer /\ TokIdle
  /\ ImportIdle /\ InitDate /\ PrepIdle
NextImportDate ==
  \/ ImportDate
  \/ ReadFile
  \/ ImportDone
  \/ ImportRaise
SpecImportDate == InitImportDate /\ [][NextImportDate]_vars

InitPrepareSpec ==
  /\ ClfIdle /\ CallsIdle
  /\ NoFilters /\ FilterIdle /\ DefaultTokenizer /\ TokIdle
  /\ ImportIdle /\ DateIdle /\ InitPrepare
NextPrepare ==
  \/ StartRun
  \/ GroupUserInteractions
  \/ CountUserTweets
  \/ GroupUsers
  \/ LoadElemToId
  \/ BuildVocabularyAndMatrix
  \/ BuildUserTweetsTermMatrix
  \/ BuildNetwork
  \/ GroupUserUrls
  \/ GroupProfileDomains
  \/ ChangeInputs
  \/ DeleteArtifact
SpecPrepare == InitPrepareSpec /\ [][NextPrepare]_vars

\* the runs of main over one set of partitions when no file is deleted and a
\* run can be killed between two writes of a stage
NextInterrupt ==
  \/ StartRun
  \/ GroupUserInteractions
  \/ CountUserTweets
  \/ GroupUsers
  \/ LoadElemToId
  \/ BuildVocabularyAndMatrix
  \/ BuildUserTweetsTermMatrix
  \/ BuildNetwork
  \/ GroupUserUrls
  \/ GroupProfileDomains
  \/ Interrupt
SpecInterrupt == InitPrepareSpec /\ [][NextInterrupt]_vars

\* the calls of main over one dataset, whatever config.toml holds and whether
\* or not the project has its raw data and its experiments.toml
InitCli ==
  /\ ClfIdle /\ CallsIdle
  /\ NoFilters /\ FilterIdle /\ DefaultTokenizer /\ TokIdle
  /\ ImportIdle /\ DateIdle
  /\ inputs = "A"
  /\ discussion_only = FALSE
  /\ overwrite = FALSE
  /\ prepPc = 0
  /\ running = FALSE
  /\ disk = [file \in Artifacts |-> None]
  /\ elem_to_id = <<>>
  /\ written = {}
  /\ skipped = {}
  /\ completed = {}
  /\ deletes = 0
  /\ interrupted = {}
  /\ config \in ProjectConfigs
  /\ pool = None
  /\ rawRootExists \in BOOLEAN
  /\ experimentsFileExists \in BOOLEAN
  /\ processedExists = FALSE
  /\ cliError = None
NextCli ==
  \/ StartRun
  \/ ChangeProjectFiles
  \/ GroupUserInteractions
  \/ CountUserTweets
  \/ GroupUsers
  \/ LoadElemToId
  \/ BuildVocabularyAndMatrix
  \/ BuildUserTweetsTermMatrix
  \/ BuildNetwork
  \/ GroupUserUrls
  \/ GroupProfileDomains
SpecCli == InitCli /\ [][NextCli]_vars

InitConcurrentSpec ==
  /\ NoFilters /\ FilterIdle /\ TokIdle /\ ImportIdle /\ DateIdle
  /\ PrepIdle /\ ClfIdle /\ InitConcurrent
NextConcurrent ==
  \/ CallTokenize
  \/ TestMembership
  \/ ReadCached
  \/ TokenizeAndInsert
SpecConcurrent == InitConcurrentSpec /\ [][NextConcurrent]_vars

InitClassifierSpec ==
  /\ NoFilters /\ FilterIdle /\ DefaultTokenizer /\ TokIdle
  /\ ImportIdle /\ DateIdle /\ PrepIdle /\ CallsIdle
  /\ InitClassifier
NextClassifier ==
  \/ Fit
  \/ FitCalibrate
  \/ Predict
  \/ PredictProba
SpecClassifier == InitClassifierSpec /\ [][NextClassifier]_vars

InitLabelSpec ==
  /\ NoFilters /\ FilterIdle /\ DefaultTokenizer /\ TokIdle
  /\ ImportIdle /\ DateIdle /\ PrepIdle /\ CallsIdle
  /\ InitLabel
NextLabel ==
  \/ Fit
  \/ ClassifyAndLabel
SpecLabel == InitLabelSpec /\ [][NextLabel]_vars

InitCrossValidateSpec ==
  /\ NoFilters /\ FilterIdle /\ DefaultTokenizer /\ TokIdle
  /\ ImportIdle /\ DateIdle /\ PrepIdle /\ CallsIdle
  /\ InitCrossValidate
NextCrossValidate == CrossValidate
SpecCrossValidate == InitCrossValidateSpec /\ [][NextCrossValidate]_vars

(***************************************************************************)
(* Properties of filter_dataframe.                                         *)
(***************************************************************************)
\* s can be obtained from t by deleting rows
IsSubsequence(s, t) ==
  \E f \in [1..Len(s) -> 1..Len(t)] :
    /\ \A i \in 1..Len(s) : s[i] = t[f[i]]
    /\ \A i \in 1..Len(s), j \in 1..Len(s) : i < j => f[i] < f[j]

\* C2: whatever the filters, filter_dataframe returns a subset of its input
\* (rows of the input, in the input's order, none twice, so at most as many)
\* and every returned row has an id.
C2_FilterMonotone ==
  filterPc = "returned" =>
    /\ IsSubsequence(filtered, df.rows)
    /\ Len(filtered) <= Len(df.rows)
    /\ \A i \in 1..Len(filtered) : ~IsNone(filtered[i].id)

\* a call with a location blacklist that kept one row and dropped a row
\* without an id
C2_Witness ==
  /\ filterPc = "returned"
  /\ ~IsNone(location.blacklist)
  /\ Len(filtered) = 1
  /\ \E i \in 1..Len(df.rows) : IsNone(df.rows[i].id)

SearchTermsConfigured ==
  ~IsNone(terms.patterns) /\ Val(terms.patterns) # <<>>

ContainsSearchTerm(text) ==
  /\ ~IsNone(terms.patterns)
  /\ \E w \in Range(Val(terms.patterns)) : IsSubstring(w, text)

ContainsRejectedTerm(text) ==
  /\ ~IsNone(terms.blacklist)
  /\ \E w \in Range(Val(terms.blacklist)) : IsSubstring(w, text)

\* C3: a row that passed the location stage is returned exactly when: with
\* at least one search term configured, its text contains a search term and
\* no rejected term; with no search term configured, its text contains no
\* rejected term.
C3_KeywordPolicy ==
  filterPc = "returned" =>
    \A r \in Range(candidates) :
      (r \in Range(filtered)) <=>
        IF SearchTermsConfigured
          THEN ContainsSearchTerm(r.text) /\ ~ContainsRejectedTerm(r.text)
          ELSE ~ContainsRejectedTerm(r.text)

\* the user.location of row r matches the list
MatchesList(list, r) == ~IsNone(r.loc) /\ RegexSearch(list, Val(r.loc))

\* C4: a row with an id passes the location stage exactly when (a)
\* accept_unknown is set, or no gazetteer is configured, or its location
\* matches the gazetteer, and (b) no blacklist is configured or its location
\* does not match the blacklist; without accept_unknown a gazetteer drops
\* every row whose location is absent or does not match.
C4_LocationPolicy ==
  filterPc # "idle" =>
    /\ \A r \in Range(df.rows) :
         ~IsNone(r.id) =>
           ((r \in Range(candidates)) <=>
              /\ \/ location.accept_unknown
                 \/ IsNone(location.patterns)
                 \/ MatchesList(Val(location.patterns), r)
              /\ \/ IsNone(location.blacklist)
                 \/ ~MatchesList(Val(location.blacklist), r))
    /\ (~location.accept_unknown /\ ~IsNone(location.patterns)) =>
         \A r \in Range(candidates) :
           MatchesList(Val(location.patterns), r)

\* accept_unknown with a gazetteer and a blacklist: a row that matches no
\* gazetteer entry is kept and a blacklisted one is dropped
C4_Witness ==
  /\ filterPc = "returned"
  /\ location.accept_unknown
  /\ location.patterns = Some(<< <<"n", "y">> >>)
  /\ location.blacklist = Some(<< <<"c">> >>)
  /\ df.rows = <<Tweet(Some(1), Some(Paris), <<"a">>),
                 Tweet(Some(1), Some(NYC), <<"a">>)>>
  /\ candidates = <<Tweet(Some(1), Some(Paris), <<"a">>)>>

(***************************************************************************)
(* Properties of the tokenizer cache.                                      *)
(***************************************************************************)
\* C5: every call of the configured tokenizer returns what tokenize returns
\* for its input under the configured ngram_range and stopwords, and a call
\* with the input of the call just before returns the same output without
\* running tokenize again.
C5_TokenizerCache ==
  ~IsNone(tokIn) =>
    /\ tokOut = Tokenize(Val(tokIn), ngram_range, stopwords)
    /\ (tokPrevIn = tokIn) => (~tokInvoked /\ tokOut = tokPrevOut)

\* a repeated call on a full cache, after another key was evicted
C5_Witness ==
  /\ tokIn = Some(<<"a", "b">>)
  /\ tokPrevIn = tokIn
  /\ ~tokInvoked
  /\ Len(token_cache) = lru_size
  /\ stopwords = {"a"}

(***************************************************************************)
(* Properties of import_files.                                             *)
(***************************************************************************)
\* the rows of a valid file that the filters keep; 0 for a corrupted file,
\* an empty file and a file without a text column
FilteredCount(file) ==
  IF file.corrupted \/ ~file.frame.hasText \/ file.frame.rows = <<>>
    THEN 0
    ELSE Len(SelectSeq(file.frame.rows,
                       LAMBDA r : /\ LocationFlag(r)
                                  /\ (Cardinality(DOMAIN automaton) > 0
                                        => KeywordFlag(r))))

\* C1: a batch of valid, corrupted and empty or text-less files runs every
\* task to completion and does not raise, and the total it reports is the sum
\* of the filtered row counts of its valid files.
C1_ImportResilience ==
  /\ importPc # "raised"
  /\ \A i \in 1..Len(taskState) : taskState[i] # "raised"
  /\ importPc = "done" =>
       read_tweets = SumSeq([i \in 1..Len(file_names) |->
                               FilteredCount(file_names[i])])

(***************************************************************************)
(* Properties of import_date.                                              *)
(***************************************************************************)
\* the names of the files handed to import_files, in order
PassedNames == [i \in 1..Len(file_names) |-> file_names[i].name]

\* stamp p is earlier than stamp q
StampBefore(p, q) ==
  \/ p[1] < q[1]
  \/ p[1] = q[1] /\ p[2] < q[2]
  \/ p[1] = q[1] /\ p[2] = q[2] /\ p[3] < q[3]

\* what import_date resolves and passes on, apart from duplicates: periods
\* timestamps, the k-th being anchor + k*freq with anchor the local midnight
\* of the date as UTC; the files passed are those of the candidates whose
\* file exists, in timestamp order, for data_path/raw/json/{date} and the
\* prefix tweets.partition; the defaults give 144 ten-minute steps.
DateRangeResolved ==
  ~IsNone(dateCall) =>
    LET call == Val(dateCall)
        anchor == call.date * SecondsPerDay - timezone
    IN /\ Len(resolved) = call.periods
       /\ \A k \in 0..(call.periods - 1) :
            resolved[k + 1] = anchor + k * call.freq
       /\ \A i \in 1..Len(PassedNames) :
            /\ PassedNames[i] \in sourceFiles
            /\ \E k \in 1..Len(resolved) : PassedNames[i] = Strftime(resolved[k])
       /\ \A k \in 1..Len(resolved) :
            Strftime(resolved[k]) \in sourceFiles
              => \E i \in 1..Len(PassedNames) :
                   PassedNames[i] = Strftime(resolved[k])
       /\ \A i \in 1..Len(PassedNames), j \in 1..Len(PassedNames) :
            i < j => ~StampBefore(PassedNames[j], PassedNames[i])
       /\ target_path = Some(<<"raw", "json", call.date>>)
       /\ file_prefix = Some("tweets.partition")
       /\ (call.periods = DefaultPeriods /\ call.freq = DefaultFreq) =>
            /\ Len(resolved) = 144
            /\ \A k \in 1..143 : resolved[k + 1] - resolved[k] = 600

NoFilePassedTwice ==
  \A i \in 1..Len(PassedNames), j \in 1..Len(PassedNames) :
    i # j => PassedNames[i] # PassedNames[j]

\* C10: import_date resolves periods timestamps, the k-th being the UTC
\* instant of the local midnight of the date plus k*freq, and passes to
\* import_files exactly the candidates whose file exists, in timestamp order
\* and without duplicates, for raw/json/{date} and prefix tweets.partition.
C10_DateRange ==
  DateRangeResolved /\ (~IsNone(dateCall) => NoFilePassedTwice)

(***************************************************************************)
(* Properties of the preparation pipeline.                                 *)
(***************************************************************************)
\* the matrices built over a relevant vocabulary, each with that vocabulary
VocabularyMatrices ==
  {<<Files.token_matrix[c], Files.relevant_vocabulary[c]>> : c \in TokenColumns}
    \cup {<<Files.tweet_matrix, Files.relevant_tweet_vocabulary>>,
          <<Files.domains_matrix, Files.relevant_domains>>,
          <<Files.profile_domains_matrix, Files.profile_domains>>,
          <<Files.profile_tlds_matrix, Files.profile_tlds>>}

\* C6: after any runs, with input changes and deletions between them, a
\* matrix that is on disk together with its relevant vocabulary and
\* user.elem_ids.json.gz was built with the token ids of that vocabulary file
\* and the row ids of that elem_ids file.
C6_MatrixMatchesVocabularyAndRoster ==
  ~running =>
    \A p \in VocabularyMatrices :
      (Exists(disk, p[1]) /\ Exists(disk, p[2]) /\ Exists(disk, Files.elem_ids))
        => /\ ReadFrom(disk, p[1]).cols = TokenToId(ReadFrom(disk, p[2]))
           /\ ReadFrom(disk, p[1]).rows = ElemToId(ReadFrom(disk, Files.elem_ids))

\* C7: a stage that has completed and runs again with overwrite=false skips:
\* it writes no file and leaves the disk as it is, whatever the inputs are
\* now.
C7_IdempotentSkip ==
  [][(running /\ ~overwrite /\ MainSteps[prepPc] \in completed)
       => (disk' = disk /\ written' = written /\ skipped' # skipped)]_vars

\* a second run on other inputs skipped group_users and group_user_urls and
\* left the counts of the first
C7_Witness ==
  /\ ~running /\ prepPc > LastStep /\ ~overwrite
  /\ {<<"group_users">>, <<"group_user_urls">>} \subseteq skipped
  /\ inputs = "B"
  /\ ReadFrom(disk, Files.total_tweets) = GroupSum(DatasetA.tweets_per_user,
                                                Column(DatasetA.tweets_per_user, "user_id"))

\* the files a stage writes when it runs to its end
StageWrites(stage) ==
  StageArtifacts(stage)
    \ (IF discussion_only THEN {} ELSE {Files.histogram})

\* C8: a run with overwrite=true skips no stage and no phase, and has
\* rewritten every artifact of every stage it went through, whatever was on
\* disk.
C8_OverwriteRecomputes ==
  overwrite =>
    /\ skipped = {}
    /\ \A k \in 1..(prepPc - 1) : StageWrites(MainSteps[k]) \subseteq written

\* an overwriting run went through the token matrices while an older tweet
\* matrix is on disk without its relevant vocabulary
C8_Witness ==
  /\ overwrite /\ running /\ MainSteps[prepPc][1] = "build_user_tweets_term_matrix"
  /\ Exists(disk, Files.tweet_matrix)
  /\ ~Exists(disk, Files.relevant_tweet_vocabulary)
  /\ Files.token_matrix["name_tokens"] \in written

\* the matrices that prepare_experiment builds cell by cell
CellBuiltMatrices ==
  {Files.tweet_matrix, Files.domains_matrix, Files.profile_domains_matrix,
   Files.profile_tlds_matrix} \cup {Files.adjacency_matrix[n] : n \in Layers}

\* C9: a persisted matrix has as many rows as the elem_to_id of its build
\* has entries and as many columns as the vocabulary (or extended id
\* mapping) of its build, and every cell written lies within both.
C9_MatrixIndexRanges ==
  \A file \in CellBuiltMatrices :
    Exists(disk, file) =>
      LET m == ReadFrom(disk, file)
      IN /\ m.shape[1] = Cardinality(DOMAIN m.rows)
         /\ m.shape[2] = Cardinality(DOMAIN m.cols)
         /\ \A c \in DOMAIN m.cells :
              /\ c[1] \in 0..(m.shape[1] - 1)
              /\ c[2] \in 0..(m.shape[2] - 1)

\* the retweet network has a column for a user outside the roster, and the
\* other matrices are built
C9_Witness ==
  /\ \A file \in CellBuiltMatrices : Exists(disk, file)
  /\ ReadFrom(disk, Files.adjacency_matrix["retweet"]).shape = <<2, 3>>
  /\ <<1, 2>> \in DOMAIN ReadFrom(disk, Files.adjacency_matrix["retweet"]).cells
  /\ ReadFrom(disk, Files.tweet_matrix).shape = <<2, 2>>

(***************************************************************************)
(* Properties of the arguments of import_date.                             *)
(***************************************************************************)
\* C11: import_date raises its invalid-input error exactly when source_path
\* is neither a str nor a Path or does not exist, and then nothing was done:
\* no candidate is resolved, no file is passed on or imported, the target
\* directory is not created and no file is written.
C11_InvalidSourcePath ==
  ~IsNone(sourceArg) =>
    /\ dateRaised = Some("ValueError")
         <=> (Val(sourceArg) \notin {"str", "Path"} \/ ~sourceExists)
    /\ dateRaised = Some("ValueError") =>
         /\ resolved = <<>> /\ dateCall = None
         /\ file_names = <<>> /\ taskState = <<>>
         /\ target_path = None /\ targetFiles = {}
         /\ importPc = "idle"

\* a call with the name of a directory that does not exist was refused
C11_Witness ==
  /\ sourceArg = Some("str") /\ ~sourceExists
  /\ dateRaised = Some("ValueError")
  /\ target_path = None

(***************************************************************************)
(* Properties of the start of main.                                        *)
(***************************************************************************)
\* C12: a call of main that finds data/raw/json or experiments.toml missing
\* raises FileNotFoundError before any stage: no run starts, processed_path
\* is not made and no artifact is written, changed or removed.
C12_MissingInputsFailFirst ==
  [][(StartRun /\ (~rawRootExists \/ ~experimentsFileExists)) =>
       /\ cliError' = Some("FileNotFoundError")
       /\ ~running' /\ prepPc' = prepPc
       /\ processedExists' = processedExists
       /\ disk' = disk
       /\ written' = written /\ completed' = completed]_vars

\* a call that failed for want of experiments.toml, after an earlier run
\* wrote its artifacts
C12_Witness ==
  /\ cliError = Some("FileNotFoundError")
  /\ rawRootExists /\ ~experimentsFileExists
  /\ ~running
  /\ Exists(disk, Files.elem_ids)

\* C16: the pool of main has environment.n_jobs workers when config.toml
\* sets that key, and 2 workers when it does not.
C16_PoolSizeFromEnvironment ==
  ~IsNone(pool) =>
    Val(pool) = IF IsNone(config.environment.n_jobs)
                  THEN 2
                  ELSE Val(config.environment.n_jobs)

(***************************************************************************)
(* Properties of the classifier.                                           *)
(***************************************************************************)
\* the rows of a classify_and_label call that returned
Labelled == clfOut.op = "classify_and_label" /\ ~clfOut.raised
\* the best-class probability of row i of the call
BestProbability(i) == Max(Range(clfOut.proba[i]))
\* the classes of row i with the highest probability
BestClasses(i) ==
  {clfOut.classes[j] : j \in {k \in 1..Len(clfOut.classes) :
                                clfOut.proba[i][k] = BestProbability(i)}}

\* C13: classify_and_label returns one row per input row; a row's label is
\* the non-labeled value if and only if its best-class probability is
\* strictly below min_probability, and otherwise the class with the highest
\* probability; max_probability is the best-class probability in both cases
\* and source is "xgb".
C13_AbstentionIff ==
  Labelled =>
    /\ Len(clfOut.results) = Len(clfOut.proba)
    /\ \A i \in 1..Len(clfOut.results) :
         LET r == clfOut.results[i]
         IN /\ r.label = clfOut.non_labeled_value
                 <=> BestProbability(i) < clfOut.min_probability
            /\ BestProbability(i) >= clfOut.min_probability
                 => r.label \in BestClasses(i)
            /\ r.max_probability = BestProbability(i)
            /\ r.source = "xgb"

\* C13, amended: a row whose best-class probability is strictly below
\* min_probability has the non-labeled value as its label, and every other
\* row has the class with the highest probability, which is the non-labeled
\* value itself when the caller chose the name of a class for it.
C13_Abstention ==
  Labelled =>
    /\ Len(clfOut.results) = Len(clfOut.proba)
    /\ \A i \in 1..Len(clfOut.results) :
         LET r == clfOut.results[i]
         IN /\ BestProbability(i) < clfOut.min_probability
                 => r.label = clfOut.non_labeled_value
            /\ BestProbability(i) >= clfOut.min_probability
                 => r.label \in BestClasses(i)
            /\ r.max_probability = BestProbability(i)
            /\ r.source = "xgb"

\* a call with a row that abstains and a row exactly at the threshold
C13_Witness ==
  /\ Labelled
  /\ \E i, j \in 1..Len(clfOut.results) :
       /\ BestProbability(i) < clfOut.min_probability
       /\ clfOut.results[i].label = clfOut.non_labeled_value
       /\ BestProbability(j) = clfOut.min_probability
       /\ clfOut.results[j].label # clfOut.non_labeled_value

C15_FoldIntegrity ==
  (clfOut.op = "cross_validate" /\ ~clfOut.raised) =>
    LET out == clfOut.outputs
        rows == 0..(Len(yData) - 1)
        n_splits == Val(cvArgs).n_splits
        stratify ==
          IF IsNone(Val(cvArgs).stratify_on)
            THEN [i \in 1..Len(yData) |->
                    IF yData[i] = NaN THEN null_name ELSE yData[i]]
            ELSE Val(Val(cvArgs).stratify_on)
    IN /\ Len(out) = n_splits
       /\ \A i, j \in 1..Len(out) :
            i # j => out[i].test \cap out[j].test = {}
       /\ UNION {out[i].test : i \in 1..Len(out)} = rows
       /\ \A i \in 1..Len(out) :
            /\ out[i].train = rows \ out[i].test
            /\ out[i].test =
                 StratifiedKFold(stratify, n_splits).splits[i].test

\* three folds over four rows, one of them without a label
C15_Witness ==
  /\ clfOut.op = "cross_validate" /\ ~clfOut.raised
  /\ Val(cvArgs).n_splits = 3
  /\ Len(yData) = 4
  /\ \E i \in 1..4 : yData[i] = NaN
  /\ \E i \in 1..4 : yData[i] # NaN

(***************************************************************************)
(* Properties of the token cache.                                          *)
(***************************************************************************)
\* C17: with several tasks calling the tokenizer over the one cache, no call
\* fails, whatever the interleaving of the tasks' membership tests, reads
\* and inserts, and every call that returned returned the tokenization of
\* its own input.
C17_ConcurrentCallsComplete ==
  \A t \in DOMAIN calls :
    /\ calls[t].pc # "KeyError"
    /\ calls[t].pc = "returned" =>
         calls[t].result = Tokenize(calls[t].x, ngram_range, stopwords)

\* C18: the cache never holds more than lru_size entries, 50 when
\* user_matrix.lru_size is not configured; every key of it maps to the
\* tokenization of that key; and a key leaves it only during a call that
\* inserts a new key into a full cache, and is then the least recently used
\* one: not the input of the last call nor, in a cache of three or more,
\* that of the call before.
C18_CacheIsLru ==
  /\ [](/\ lru_size = IF IsNone(lru_config) THEN 50 ELSE Val(lru_config)
        /\ Len(token_cache) <= lru_size
        /\ \A i, j \in 1..Len(token_cache) :
             i # j => token_cache[i][1] # token_cache[j][1]
        /\ \A i \in 1..Len(token_cache) :
             token_cache[i][2]
               = Tokenize(token_cache[i][1], ngram_range, stopwords))
  /\ [][LET left == CacheKeys(token_cache) \ CacheKeys(token_cache')
        IN left # {} =>
             /\ Cardinality(left) = 1
             /\ Len(token_cache) = lru_size
             /\ Val(tokIn') \notin CacheKeys(token_cache)
             /\ Val(tokIn') \in CacheKeys(token_cache')
             /\ lru_size >= 2 => Val(tokIn) \notin left
             /\ (lru_size >= 3 /\ ~IsNone(tokPrevIn))
                  => Val(tokPrevIn) \notin left]_vars

\* a full cache of two entries that lost its least recently used key to the
\* input of the last call
C18_Witness ==
  /\ lru_size = 2
  /\ Len(token_cache) = 2
  /\ tokEvicted # {}
  /\ tokInvoked
  /\ ~IsNone(tokPrevIn) /\ tokPrevIn # tokIn
  /\ CacheKeys(token_cache) = {Val(tokIn), Val(tokPrevIn)}

(***************************************************************************)
(* Properties of the id mappings.                                          *)
(***************************************************************************)
\* C19: right after group_users wrote the roster, the i-th row of
\* user.elem_ids.json.gz names the user of the i-th roster row and has
\* row_id i - 1, so the mapping is a bijection between the roster's users
\* and 0..n-1; the roster holds no user twice, only users of the total
\* tweet-count table, and is in descending order of their tweet counts.
C19_RosterRowIds ==
  (AtStep("elem_to_id") /\ Files.elem_ids \in written) =>
    LET roster == ReadFrom(disk, Files.unique)
        ids == ReadFrom(disk, Files.elem_ids)
        tweet_count == ReadFrom(disk, Files.total_tweets)
        n == Len(roster)
    IN /\ Len(ids) = n
       /\ \A i \in 1..n :
            /\ ids[i].row_id = i - 1
            /\ ids[i].user_id = roster[i].user.user_id
            /\ ids[i].user_id \in DOMAIN tweet_count
            /\ roster[i].dataset_tweets = tweet_count[ids[i].user_id]
       /\ \A i, j \in 1..n :
            i < j => /\ ids[i].user_id # ids[j].user_id
                     /\ roster[i].dataset_tweets >= roster[j].dataset_tweets
       /\ {ids[i].row_id : i \in 1..n} = 0..(n - 1)

\* a roster of three users just written
C19_Witness ==
  /\ AtStep("elem_to_id")
  /\ Files.elem_ids \in written
  /\ Len(ReadFrom(disk, Files.elem_ids)) = 3

\* C20: the id mapping build_network writes for a layer keeps the index of
\* every roster user and gives the other users of the retained edges the
\* indices len(roster), len(roster) + 1, ... in the order in which the edge
\* table first names them, so it is a bijection onto 0..size-1; main's
\* elem_to_id is still the roster's mapping.
C20_ExtendedMapping ==
  \A name \in Layers :
    (/\ Files.target_ids[name] \in written
     /\ Exists(disk, Files.target_ids[name])
     /\ Exists(disk, Files.edges[name])
     /\ Exists(disk, Files.elem_ids)) =>
      LET nodes == ReadFrom(disk, Files.target_ids[name])
          roster == DOMAIN elem_to_id
          n == Cardinality(roster)
          rows == {e \in ReadFrom(disk, Files.edges[name]) :
                     e.source \in roster}
          extra == ({e.source : e \in rows} \cup {e.target : e \in rows})
                     \ roster
          \* the table is in the order of its keys (source, target)
          RowBefore(e, f) ==
            \/ e.source < f.source
            \/ e.source = f.source /\ e.target < f.target
          FirstRow(u) ==
            CHOOSE e \in rows :
              /\ e.target = u
              /\ \A f \in rows : f.target = u => (f = e \/ RowBefore(e, f))
      IN /\ DOMAIN nodes = roster \cup extra
         /\ \A u \in roster : nodes[u] = elem_to_id[u]
         /\ {nodes[u] : u \in extra} = n..(n + Cardinality(extra) - 1)
         /\ \A u, v \in DOMAIN nodes : u # v => nodes[u] # nodes[v]
         /\ {nodes[u] : u \in DOMAIN nodes}
              = 0..(Cardinality(DOMAIN nodes) - 1)
         /\ \A u, v \in extra :
              RowBefore(FirstRow(u), FirstRow(v)) => nodes[u] < nodes[v]
         /\ elem_to_id = ElemToId(ReadFrom(disk, Files.elem_ids))

(***************************************************************************)
(* Properties of find_nodes_in_discussion.                                 *)
(***************************************************************************)
\* the users joined by an edge of a layer, in either direction
Adjacent(u, v) ==
  \E n \in Layers : \E e \in ReadFrom(disk, Files.edges[n]) :
    \/ (e.source = u /\ e.target = v)
    \/ (e.source = v /\ e.target = u)
DiscussionUsers ==
  UNION {{e.source, e.target} : e \in
           UNION {ReadFrom(disk, Files.edges[n]) : n \in Layers}}
\* S is closed: no edge leaves it
Closed(S) == \A u \in S, v \in DiscussionUsers : Adjacent(u, v) => v \in S
\* a connected component: a closed set of users none of whose proper parts
\* is closed
IsComponent(C) ==
  /\ C # {} /\ C \subseteq DiscussionUsers /\ Closed(C)
  /\ \A S \in SUBSET C : (S # {} /\ S # C) => ~Closed(S)
\* the connected components of maximum size
LargestByClosure ==
  LET components == {C \in SUBSET DiscussionUsers : IsComponent(C)}
  IN {C \in components :
        \A D \in components : Cardinality(D) <= Cardinality(C)}

\* C21: right after group_users, over the three edge tables it read, every
\* set that find_nodes_in_discussion can return is a connected component of
\* maximum size of the undirected union of the layers, the same sets with
\* directed true and false; and a roster just written for a discussion holds
\* the users of the dataset that are in one such component.
C21_LargestComponent ==
  (AtStep("elem_to_id") /\ \A n \in Layers : Exists(disk, Files.edges[n])) =>
    LET largest == LargestByClosure
    IN /\ \A directed \in BOOLEAN :
            \A found \in find_nodes_in_discussion(disk, directed) :
              found.ok => found.nodes \in largest
       /\ {found.nodes : found \in find_nodes_in_discussion(disk, TRUE)}
            = {found.nodes : found \in find_nodes_in_discussion(disk, FALSE)}
       /\ (discussion_only /\ Files.elem_ids \in written) =>
            \E C \in largest :
              {r.user_id : r \in Range(ReadFrom(disk, Files.elem_ids))}
                = {u \in {x.user_id :
                            x \in Range(Dataset(inputs).unique_users)} :
                     /\ u \in C
                     /\ u \in DOMAIN ReadFrom(disk, Files.total_tweets)}

\* a roster just written for the discussion of a graph of two components of
\* different sizes
C21_Witness ==
  /\ AtStep("elem_to_id") /\ discussion_only
  /\ Files.elem_ids \in written
  /\ \A n \in Layers : Exists(disk, Files.edges[n])
  /\ \E C, D \in SUBSET DiscussionUsers :
       /\ IsComponent(C) /\ IsComponent(D)
       /\ Cardinality(D) < Cardinality(C)
       /\ {r.user_id : r \in Range(ReadFrom(disk, Files.elem_ids))}
            \subseteq C
       /\ ReadFrom(disk, Files.elem_ids) # <<>>

(***************************************************************************)
(* C22: interrupted stages                                                 *)
(***************************************************************************)
\* the files of the phase a run logs as skipped
PhaseFiles(name) ==
  UNION {Range(p.files) :
           p \in {q \in UNION {Phases(stage) : stage \in Range(MainSteps)} :
                    q.name = name}}

\* C22: while no file has been deleted, a run with overwrite=false skips no
\* stage or phase whose last execution was interrupted after some of its
\* writes and before its last one, and every stage or phase it skips has its
\* last-written artifact, and with it all its artifacts but the optional
\* component histogram, on disk.
C22_InterruptedStageNotSkipped ==
  (~overwrite /\ deletes = 0) =>
    /\ skipped \cap interrupted = {}
    /\ \A name \in skipped :
         \A file \in PhaseFiles(name) \ {Files.histogram} : Exists(disk, file)

====
